---------------------------- MODULE Spec2Model ----------------------------
(***************************************************************************)
(* NetShield: token bucket (shield/token_bucket.py), bounded LRU profile   *)
(* cache (intel/threat_intel.py), IPC validation (ipc.py) and the          *)
(* privileged interceptor's hot path and command handler (service.py).     *)
(*                                                                         *)
(* Time is counted in integer clock ticks; a rate is a number of bytes per *)
(* tick, so that elapsed * rate is exact.  Floating-point rounding of the  *)
(* Python floats is not modelled.                                          *)
(***************************************************************************)
EXTENDS Integers, Sequences, FiniteSets, TLC

(***************************************************************************)
(* Bounds of the model.                                                    *)
(***************************************************************************)
MaxRate == 2
MaxCap == 3
MaxBytes == 3
MaxTime == 3
MaxCalls == 4
MaxSize == 2
MaxTtlHours == 1
MaxTicks == 1
NumKeys == 3
NumProfiles == 2
MaxPackets == 2
MaxPacketBytes == 2
MaxChan == 1
NumThreads == 2
MaxThreadCalls == 3
MaxFrames == 2
GoodBodyLen == 6
MaxStrLen == 3
MaxIntelCalls == 3
MaxRecords == 3
NumSavers == 2
MaxSaves == 2
MaxEntries == 2
MaxRecvs == 12
MaxAnalyses == 2
MaxWallTicks == 2
NumCallers == 2
MaxRateCalls == 3

\* Seconds in an hour: LRUCache.__init__, ttl_hours * 3600.
SecondsPerHour == 3600

\* ipc.py: BUFFER_SIZE, and HEADER_SIZE = struct.calcsize('>I').
BUFFER_SIZE == 65536
HEADER_SIZE == 4

\* The first four bytes of a JSON body written by to_bytes, '{"ty', as a
\* big-endian number, and a byte of the rest of the body, '"'.
JsonWord == 2065855609
JsonByte == 34

\* ThreatIntel.__init__: Queue(maxsize=1000)
LookupQueueMax == 1000

\* EventLogger.__init__: Queue(maxsize=10000)
WriteQueueMax == 10000

\* ThreatScorer.__init__: the score weights and the thresholds (MB/s).
score_high_risk_country == 30
score_extreme_speed == 40
score_high_speed == 20
score_high_throttle == 20
score_suspicious_asn == 15
extreme_speed_threshold == 100
high_speed_threshold == 50

\* Worker: THREAT_SCORE_THRESHOLD and HIGH_RATE_THRESHOLD_MBPS.
THREAT_SCORE_THRESHOLD == 70

\* worker.py, Worker.__init__: "deque(maxlen=10000)", "self.rate_window = 1.0"
RateSamplesMaxLen == 10000
rate_window == 1

\* worker.py, _cleanup_loop: "now - tracker.last_seen > 3600"
TrackerMaxAge == 3600
HIGH_RATE_THRESHOLD_MBPS == 50

\* ShieldEngine.run: "if error_count >= 10"
ERROR_LIMIT == 10

\* config.py: the bounds of the bandwidth limit (MB/s) and of the burst (MB).
MIN_BANDWIDTH_MBPS == 1
MAX_BANDWIDTH_MBPS == 1000
MIN_BURST_SIZE_MB == 1
MAX_BURST_SIZE_MB == 100

\* ThreatScorer.calculate: "if profile.total_packets > 10", "min(score, 100)"
MinSamplePackets == 10
ScoreCap == 100

VARIABLES
    \* ---- TokenBucket (shield/token_bucket.py) ----
    rate,               \* self.rate
    bucket_size,        \* self.bucket_size
    tokens,             \* self.tokens
    last_update,        \* self.last_update
    perf_counter,       \* the reading time.perf_counter() would return now
    bkt_total_bytes,    \* self._total_bytes
    bkt_throttled_bytes,\* self._throttled_bytes
    bkt_packet_count,   \* self._packet_count
    bkt_throttled_count,\* self._throttled_count
    consume_ret,        \* the value returned by the last consume() call
    admitted,           \* history: <<clock reading, bytes>> of every allowed call
    \* ---- LRUCache (intel/threat_intel.py) and the IPProfile objects ----
    max_size,           \* self.max_size
    ttl_seconds,        \* self.ttl_seconds
    cache,              \* self._cache: the OrderedDict, as its items oldest first
    last_access,        \* IPProfile.last_access of every profile object
    monotonic,          \* the reading time.monotonic() would return now
    cache_ret,          \* the last LRUCache call, what it returned and evicted
    recency,            \* history: the keys present, least recently accessed first
    \* ---- IPC channels (ipc.py) ----
    ipc_running,        \* IPCServer._running
    cmd_chan,           \* frames written to the command pipe and not yet read
    pkt_chan,           \* frames written to the packet pipe and not yet read
    connected,          \* IPCClient._connected
    listener_last,      \* the last frame the listener read and what it did with it
    receive_ret,        \* what the last IPCClient.receive_packet() returned
    \* ---- MinimalService (service.py) ----
    svc_pc,             \* where run() stands
    running,            \* self.running
    throttled_ips,      \* self.throttled_ips
    total_packets,      \* self.total_packets
    total_bytes,        \* self.total_bytes
    throttled_count,    \* self.throttled_count
    packet,             \* the packet the hot path is processing
    ip_throttled,       \* the hot path's local ip_throttled
    reinjected,         \* number of w.send(packet) calls so far
    began_throttled,    \* history: the source was throttled when processing began
    unthrottled_since,  \* history: an unthrottle of the source was applied since
    \* ---- threads calling TokenBucket.consume (shield/token_bucket.py) ----
    bucket_lock,        \* self._lock: 0 when free, else the thread that holds it
    thr_pc,             \* where each thread stands in consume()
    thr_n,              \* the num_bytes each thread called consume with
    thr_loc,            \* what each thread read of the bucket's fields
    calls,              \* history: calls made, bytes requested, calls refused
    \* ---- a pipe as the bytes in it, and the loop that reads it (ipc.py) ----
    stream,             \* the bytes written and not yet read, as segments
    rd_pc,              \* "header": before the read of a header; "body"
    rd_len,             \* msg_len, between the two reads
    delivered,          \* history: the frames whose body was decoded
    frames,             \* history: frames written, and the well-formed ones
    \* ---- a call of sanitize_ip (models.py) ----
    sip_in,             \* the argument
    sip_out,            \* the value returned, once the call has returned
    \* ---- ThreatIntel (intel/threat_intel.py) and the profiles' strings ----
    fields,             \* the string fields of every IPProfile object
    lookup_queue,       \* self.lookup_queue
    goc_pc,             \* where get_or_create_profile stands
    goc_ip,             \* its argument
    goc_ret,            \* history: the last call's argument and what it returned
    intel_calls,        \* history: number of get_or_create_profile calls
    \* ---- EventLogger (loggers/event_logger.py): queue, writer, flush, stop ----
    write_queue,        \* self._write_queue
    log_running,        \* self._running
    writer_pc,          \* where _writer_worker stands
    writer_item,        \* the item it took from the queue
    events_file,        \* the records written to the file, in order
    accepted,           \* history: the records put_nowait accepted
    flush_pc,           \* where flush() stands
    flush_snap,         \* history: the records accepted before flush() was called
    stop_pc,            \* where stop() stands
    stop_snap,          \* history: the records accepted before stop() was called
    log_ret,            \* how the last log_event / log_traffic call ended
    log_calls,          \* history: number of log_event / log_traffic calls
    \* ---- EventLogger.save_watchlist and readers of the watchlist path ----
    wl_file,            \* the file at the watchlist path
    tmp_file,           \* the temporary sibling file
    wl_lock,            \* self._watchlist_lock: 0 when free, else its holder
    saver_pc,           \* where each thread stands in save_watchlist
    saver_doc,          \* the document each thread is saving
    saves,              \* history: documents of the saves begun and completed
    reader_pc,          \* where the reader of the path stands
    reader_handle,      \* the file the reader has open
    reader_seen,        \* what the reader last read
    \* ---- EventLogger in integrity mode: a signed file and its verification ----
    sig_file,           \* the file written: its suffix and its records
    sig_written,        \* history: the file as the logger wrote it
    verify_ret,         \* what verify_integrity last returned
    \* ---- a call of a function: its argument and what it returned ----
    call_arg,
    call_ret,
    \* ---- the two ends of the pipes and the loops that read them ----
    srv_end,            \* the interceptor's handles: "open" or "closed"
    cli_end,            \* the analyzer's handles: "open" or "closed"
    lsn_pc,             \* IPCServer._command_listener: "read" or "exited"
    wrk_pc,             \* Worker._packet_loop: "receive", "none" or "exited"
    wrk_running,        \* Worker.running, and stop_event not set
    \* ---- the receive loops of ShieldEngine.run and MinimalService.run ----
    rcv_live,           \* per loop: it has not been ended by receive errors
    error_count,        \* ShieldEngine.run's local error_count
    streak,             \* history, per loop: receive errors since the last success
    recvs,              \* history, per loop: number of w.recv() calls
    \* ---- Worker._analyze_packet (worker.py) ----
    ip_trackers,        \* self.ip_trackers: source address -> IPTracker
    ana_ret,            \* history: what the last _analyze_packet did
    \* ---- the analyzer's threads on the tracker table (worker.py) ----
    wall_clock,         \* the reading time.time() would return now
    pl_pc,              \* _analyze_packet: "idle", "check", "insert", "lookup", "update", "dead"
    pl_ip,              \* _analyze_packet: src_ip
    pl_now,             \* _analyze_packet: now
    scan_pc,            \* per background loop: "sleep", "scan", "delete"
    scan_left,          \* per background loop: keys its iterator has not visited
    scan_size,          \* per background loop: the table's size when the iterator was made
    cl_now,             \* _cleanup_loop: now
    old_ips,            \* _cleanup_loop: old_ips not yet deleted
    scan_err,           \* history, per background loop: RuntimeErrors caught
    \* ---- _do_whois_lookup on a profile and a reader of the profile ----
    enr_pc,             \* 0: no update under way; 1..6: next field of update_whois; 7: the score
    enr_p,              \* the profile _do_whois_lookup got from the cache
    enr_res,            \* what the lookup returned
    threat,             \* per profile: threat_score and threat_reasons
    enr_old,            \* history: the profile's fields and score when the update began
    read_snap,          \* history: what the last reader saw
    \* ---- the rate window (worker.py) ----
    rate_samples,       \* self.rate_samples
    rate_bytes_sum,     \* self._rate_bytes_sum
    rate_calls,         \* history: descriptors added to the window
    \* ---- concurrent callers of get_or_create_profile ----
    gc_pc,              \* per caller: "idle", "create", "enqueue", "done"
    gc_ret              \* per caller: the profile returned

bucketVars == <<rate, bucket_size, tokens, last_update, perf_counter,
                bkt_total_bytes, bkt_throttled_bytes, bkt_packet_count,
                bkt_throttled_count, consume_ret>>

cacheVars == <<max_size, ttl_seconds, cache, last_access, monotonic, cache_ret>>

ipcVars == <<ipc_running, cmd_chan, pkt_chan, connected, listener_last, receive_ret>>

svcVars == <<svc_pc, running, throttled_ips, total_packets, total_bytes,
             throttled_count, packet, ip_throttled, reinjected,
             began_throttled, unthrottled_since>>

thrVars == <<bucket_lock, thr_pc, thr_n, thr_loc, calls>>

\* The variables of the components added to the first four.
frameVars == <<stream, rd_pc, rd_len, delivered, frames>>

sipVars == <<sip_in, sip_out>>

intelVars == <<fields, lookup_queue, goc_pc, goc_ip, goc_ret, intel_calls>>

logVars == <<write_queue, log_running, writer_pc, writer_item, events_file,
             accepted, flush_pc, flush_snap, stop_pc, stop_snap, log_ret,
             log_calls>>

wlVars == <<wl_file, tmp_file, wl_lock, saver_pc, saver_doc, saves, reader_pc,
            reader_handle, reader_seen>>

sigVars == <<sig_file, sig_written, verify_ret>>

callVars == <<call_arg, call_ret>>

closeVars == <<srv_end, cli_end, lsn_pc, wrk_pc, wrk_running>>

\* The variables of the components added last.
recvVars == <<rcv_live, error_count, streak, recvs>>

anaVars == <<ip_trackers, ana_ret>>

trkVars == <<wall_clock, pl_pc, pl_ip, pl_now, scan_pc, scan_left, scan_size,
             cl_now, old_ips, scan_err>>

profVars == <<enr_pc, enr_p, enr_res, threat, enr_old, read_snap>>

rateVars == <<rate_samples, rate_bytes_sum, rate_calls>>

gcVars == <<gc_pc, gc_ret>>

conVars == <<trkVars, profVars, rateVars, gcVars>>

lateVars == <<closeVars, recvVars, anaVars, conVars>>

moreVars == <<sigVars, callVars, lateVars>>

extVars == <<thrVars, frameVars, sipVars, intelVars, logVars, wlVars, moreVars>>

\* The variables of every component but the later ones.
baseVars == <<bucketVars, admitted, cacheVars, recency, ipcVars, svcVars,
              thrVars, frameVars, sipVars, intelVars, logVars, wlVars>>

vars == <<bucketVars, admitted, cacheVars, recency, ipcVars, svcVars, extVars>>

Min(a, b) == IF a <= b THEN a ELSE b

(***************************************************************************)
(* TokenBucket                                                             *)
(***************************************************************************)

\* __init__: the bucket starts full, its counters at zero.
BucketInit(r, c) ==
    /\ r > 0
    /\ c > 0
    /\ rate = r
    /\ bucket_size = c
    /\ tokens = c
    /\ last_update = 0
    /\ perf_counter = 0
    /\ bkt_total_bytes = 0
    /\ bkt_throttled_bytes = 0
    /\ bkt_packet_count = 0
    /\ bkt_throttled_count = 0
    /\ consume_ret = [status |-> "none", allowed |-> FALSE,
                      wait |-> [num |-> 0, den |-> 1]]

\* A refill that forgets the capacity.
RefillNoCap(tok, elapsed) == tok + elapsed * rate

\* "Refill tokens": min(bucket_size, tokens + elapsed * rate).
Refill(tok, elapsed) == Min(bucket_size, tok + elapsed * rate)

\* A test that throttles a request for no bytes.
SufficientPositive(tok, num_bytes) == tok >= num_bytes /\ num_bytes > 0

\* "if self.tokens >= num_bytes"
Sufficient(tok, num_bytes) == tok >= num_bytes

\* A decrement that takes the request twice.
SpendTwice(tok, num_bytes) == tok - 2 * num_bytes

\* "self.tokens -= num_bytes"
Spend(tok, num_bytes) == tok - num_bytes

\* "Calculate wait time": needed / rate, kept as the fraction num / den.
WaitTime(num_bytes, tok) == [num |-> num_bytes - tok, den |-> rate]

\* A consume that takes what is left of the tokens when it throttles.
consume_drain(num_bytes) ==
    LET elapsed == perf_counter - last_update
        refilled == Refill(tokens, elapsed)
    IN  IF num_bytes < 0
        THEN /\ consume_ret' = [status |-> "ValueError", allowed |-> FALSE,
                                wait |-> [num |-> 0, den |-> 1]]
             /\ UNCHANGED <<rate, bucket_size, tokens, last_update, perf_counter,
                            bkt_total_bytes, bkt_throttled_bytes,
                            bkt_packet_count, bkt_throttled_count>>
        ELSE /\ last_update' = perf_counter
             /\ bkt_packet_count' = bkt_packet_count + 1
             /\ bkt_total_bytes' = bkt_total_bytes + num_bytes
             /\ IF Sufficient(refilled, num_bytes)
                THEN /\ tokens' = Spend(refilled, num_bytes)
                     /\ consume_ret' = [status |-> "returned", allowed |-> TRUE,
                                        wait |-> [num |-> 0, den |-> 1]]
                     /\ UNCHANGED <<bkt_throttled_count, bkt_throttled_bytes>>
                ELSE /\ tokens' = 0
                     /\ bkt_throttled_count' = bkt_throttled_count + 1
                     /\ bkt_throttled_bytes' = bkt_throttled_bytes + num_bytes
                     /\ consume_ret' = [status |-> "returned", allowed |-> FALSE,
                                        wait |-> WaitTime(num_bytes, refilled)]
             /\ UNCHANGED <<rate, bucket_size, perf_counter>>

\* TokenBucket.consume(num_bytes), the whole body under self._lock.
consume(num_bytes) ==
    LET elapsed == perf_counter - last_update
        refilled == Refill(tokens, elapsed)
    IN  IF num_bytes < 0
        THEN \* raise ValueError before the lock is taken
             /\ consume_ret' = [status |-> "ValueError", allowed |-> FALSE,
                                wait |-> [num |-> 0, den |-> 1]]
             /\ UNCHANGED <<rate, bucket_size, tokens, last_update, perf_counter,
                            bkt_total_bytes, bkt_throttled_bytes,
                            bkt_packet_count, bkt_throttled_count>>
        ELSE /\ last_update' = perf_counter
             /\ bkt_packet_count' = bkt_packet_count + 1
             /\ bkt_total_bytes' = bkt_total_bytes + num_bytes
             /\ IF Sufficient(refilled, num_bytes)
                THEN /\ tokens' = Spend(refilled, num_bytes)
                     /\ consume_ret' = [status |-> "returned", allowed |-> TRUE,
                                        wait |-> [num |-> 0, den |-> 1]]
                     /\ UNCHANGED <<bkt_throttled_count, bkt_throttled_bytes>>
                ELSE /\ tokens' = refilled
                     /\ bkt_throttled_count' = bkt_throttled_count + 1
                     /\ bkt_throttled_bytes' = bkt_throttled_bytes + num_bytes
                     /\ consume_ret' = [status |-> "returned", allowed |-> FALSE,
                                        wait |-> WaitTime(num_bytes, refilled)]
             /\ UNCHANGED <<rate, bucket_size, perf_counter>>

(***************************************************************************)
(* IPC records and their validators (ipc.py).  A string is the sequence of *)
(* its characters; an Optional[str] field is a record that says whether a  *)
(* string is present.  A frame read from a pipe decodes to a record        *)
(* (kind "record"), fails to decode (kind "malformed": from_bytes raises), *)
(* or decodes to a record with a field of another JSON type than the       *)
(* validator expects (kind "mistyped": validate raises TypeError).         *)
(***************************************************************************)
NoneStr == [some |-> FALSE, str |-> <<>>]
Str(s) == [some |-> TRUE, str |-> s]

\* CommandType: the whitelist.
CommandTypes == {"throttle_ip", "unthrottle_ip", "get_stats", "shutdown"}

\* The characters the pattern ^[\d.:a-fA-F]+$ accepts.
IpChars == {"0", "1", "2", "3", "4", "5", "6", "7", "8", "9", ".", ":",
            "a", "b", "c", "d", "e", "f", "A", "B", "C", "D", "E", "F"}

\* Characters that are not those: the line feed, a decimal digit that is not
\* ASCII (U+0663), a space, a letter past f, a semicolon.
LF == "LF"
ArabicThree == "U+0663"

\* What \d matches in a str pattern: every Unicode decimal digit.
UnicodeDigits == {"0", "1", "2", "3", "4", "5", "6", "7", "8", "9", ArabicThree}

\* The class [\d.:a-fA-F].
PatternChars == IpChars \cup UnicodeDigits

\* re.match(r'^[\d.:a-fA-F]+$', s): one or more characters of the class up
\* to the end of the string, where "$" also matches before a final line feed.
PatternMatches(s) ==
    LET body == IF Len(s) > 0 /\ s[Len(s)] = LF THEN SubSeq(s, 1, Len(s) - 1)
                ELSE s
    IN  \/ /\ Len(s) > 0
           /\ \A i \in 1..Len(s) : s[i] \in PatternChars
        \/ /\ Len(body) > 0
           /\ \A i \in 1..Len(body) : body[i] \in PatternChars

\* len(ip) > 45 is rejected.
MaxIpLen == 45

\* Ports lie in 0..65535.
MaxPort == 65535

MAX_PACKET_SIZE == 65535

\* PacketData._is_valid_ip
is_valid_ip(ip) ==
    /\ ip.some
    /\ Len(ip.str) > 0
    /\ Len(ip.str) <= MaxIpLen
    /\ PatternMatches(ip.str)

\* A validator that skips the whitelist test.
CommandValidateNoWhitelist(cmd) ==
    IF cmd.kind = "mistyped" THEN "raise"
    ELSE IF cmd.target_ip.some /\ Len(cmd.target_ip.str) > 0 /\ ~is_valid_ip(cmd.target_ip)
    THEN "false"
    ELSE "true"

\* Command.validate: "true", "false", or "raise" when it raises.
CommandValidate(cmd) ==
    IF cmd.type \notin CommandTypes THEN "false"
    ELSE IF cmd.kind = "mistyped" THEN "raise"
    ELSE IF cmd.target_ip.some /\ Len(cmd.target_ip.str) > 0 /\ ~is_valid_ip(cmd.target_ip)
    THEN "false"
    ELSE "true"

\* PacketData.validate: "true", "false", or "raise" when it raises.
PacketValidate(pd) ==
    IF ~is_valid_ip(pd.src_ip) THEN "false"
    ELSE IF ~is_valid_ip(pd.dst_ip) THEN "false"
    ELSE IF pd.kind = "mistyped" THEN "raise"
    ELSE IF ~(0 <= pd.src_port /\ pd.src_port <= MaxPort) THEN "false"
    ELSE IF ~(0 <= pd.dst_port /\ pd.dst_port <= MaxPort) THEN "false"
    ELSE IF ~(0 <= pd.size /\ pd.size <= MAX_PACKET_SIZE) THEN "false"
    ELSE IF pd.protocol \notin {"tcp", "udp"} THEN "false"
    ELSE "true"

\* Sample strings: two source addresses the kernel delivers packets from,
\* a string with a character outside the pattern, and one of 46 characters.
IpA == <<"1", ".", "a">>
IpB == <<"2", ":", "F">>
BadIp == <<"1", ";">>
LongIp == [i \in 1..(MaxIpLen + 1) |-> "1"]

Cmd(t, ip) == [kind |-> "record", type |-> t, target_ip |-> ip]

\* What the analyzer writes on the command pipe: IPCClient.send_command
\* validates a command before it writes it.
WorkerCommands ==
    {Cmd(t, Str(IpA)) : t \in {"throttle_ip", "unthrottle_ip"}}
    \cup {Cmd("get_stats", NoneStr), Cmd("shutdown", NoneStr)}

\* What any writer can put on the command pipe.
CommandFrames ==
    {Cmd(t, ip) : t \in CommandTypes \cup {"exec"}, ip \in {NoneStr, Str(IpA)}}
    \cup {Cmd("throttle_ip", ip) : ip \in {Str(<<>>), Str(BadIp), Str(LongIp)}}
    \cup {[kind |-> "malformed", type |-> "throttle_ip", target_ip |-> Str(IpA)],
          [kind |-> "mistyped", type |-> "throttle_ip", target_ip |-> Str(IpA)],
          [kind |-> "mistyped", type |-> "exec", target_ip |-> Str(IpA)]}

Descriptor(src, dst, sport, dport, proto, size) ==
    [kind |-> "record", src_ip |-> src, dst_ip |-> dst, src_port |-> sport,
     dst_port |-> dport, protocol |-> proto, size |-> size]

\* A descriptor every field of which is valid.
GoodDescriptor == Descriptor(Str(IpA), Str(IpB), 5055, 0, "udp", MAX_PACKET_SIZE)

\* What a writer can put on the packet pipe: the valid descriptor, and the
\* same with one field out of its range.
PacketFrames ==
    {GoodDescriptor,
     [GoodDescriptor EXCEPT !.src_ip = Str(BadIp)],
     [GoodDescriptor EXCEPT !.src_ip = NoneStr],
     [GoodDescriptor EXCEPT !.dst_ip = Str(LongIp)],
     [GoodDescriptor EXCEPT !.src_port = MaxPort + 1],
     [GoodDescriptor EXCEPT !.dst_port = -1],
     [GoodDescriptor EXCEPT !.size = MAX_PACKET_SIZE + 1],
     [GoodDescriptor EXCEPT !.protocol = "icmp"],
     [GoodDescriptor EXCEPT !.kind = "mistyped"],
     [GoodDescriptor EXCEPT !.kind = "malformed"]}

NoCommand == [outcome |-> "none", cmd |-> Cmd("none", NoneStr)]
NoReceive == [status |-> "none", pkt |-> GoodDescriptor]

\* IPCServer.__init__ and IPCClient.__init__
IpcInit ==
    /\ ipc_running = FALSE
    /\ cmd_chan = <<>>
    /\ pkt_chan = <<>>
    /\ connected = FALSE
    /\ listener_last = NoCommand
    /\ receive_ret = NoReceive

\* IPCServer.send_packet: validate, then WriteFile the frame.  The pipe is
\* opened PIPE_WAIT: the write waits while the pipe is full.
send_packet(pd) ==
    IF PacketValidate(pd) # "true"
    THEN pkt_chan' = pkt_chan
    ELSE /\ Len(pkt_chan) < MaxChan
         /\ pkt_chan' = Append(pkt_chan, pd)

\* A receive_packet that returns whatever it decoded.
ReceiveAcceptsAll(pd) == pd.kind # "malformed"

\* IPCClient.receive_packet: "if packet.validate(): return packet"
ReceiveAccepts(pd) == pd.kind # "malformed" /\ PacketValidate(pd) = "true"

\* IPCClient.receive_packet, for the frame at the head of the packet pipe.
receive_packet ==
    IF ~connected
    THEN /\ receive_ret' = [status |-> "None", pkt |-> GoodDescriptor]
         /\ UNCHANGED <<pkt_chan>>
    ELSE /\ pkt_chan # <<>>
         /\ pkt_chan' = Tail(pkt_chan)
         /\ LET pd == Head(pkt_chan) IN
            receive_ret' =
                IF ReceiveAccepts(pd) THEN [status |-> "packet", pkt |-> pd]
                ELSE IF pd.kind = "malformed" \/ PacketValidate(pd) = "raise"
                THEN [status |-> "raised", pkt |-> GoodDescriptor]
                ELSE [status |-> "None", pkt |-> GoodDescriptor]

\* A listener that dispatches every decoded command.
ListenerAcceptsAll(cmd) == cmd.kind # "malformed"

\* IPCServer._command_listener: "if cmd.validate(): ... self.on_command(cmd)"
ListenerAccepts(cmd) == cmd.kind # "malformed" /\ CommandValidate(cmd) = "true"

(***************************************************************************)
(* MinimalService (service.py)                                             *)
(***************************************************************************)
NoPacket == [src_addr |-> <<>>, size |-> 0]

\* MinimalService.__init__ (the bucket is built by BucketInit)
ServiceInit ==
    /\ svc_pc = "init"
    /\ running = FALSE
    /\ throttled_ips = {}
    /\ total_packets = 0
    /\ total_bytes = 0
    /\ throttled_count = 0
    /\ packet = NoPacket
    /\ ip_throttled = FALSE
    /\ reinjected = 0
    /\ began_throttled = FALSE
    /\ unthrottled_since = FALSE

\* A handler whose throttle_ip replaces the set by the one address.
handle_command_replace(cmd) ==
    IF cmd.type = "throttle_ip"
    THEN /\ throttled_ips' =
             IF cmd.target_ip.some /\ Len(cmd.target_ip.str) > 0
             THEN {cmd.target_ip.str}
             ELSE throttled_ips
         /\ UNCHANGED running
    ELSE IF cmd.type = "unthrottle_ip"
    THEN /\ throttled_ips' =
             IF cmd.target_ip.some /\ Len(cmd.target_ip.str) > 0
             THEN throttled_ips \ {cmd.target_ip.str}
             ELSE throttled_ips
         /\ UNCHANGED running
    ELSE IF cmd.type = "shutdown"
    THEN /\ running' = FALSE
         /\ UNCHANGED throttled_ips
    ELSE UNCHANGED <<throttled_ips, running>>

\* MinimalService._handle_command(cmd): its effect on the throttled set and
\* on the running flag.
handle_command(cmd) ==
    IF cmd.type \notin CommandTypes
    THEN UNCHANGED <<throttled_ips, running>>
    ELSE IF cmd.type = "throttle_ip"
    THEN /\ throttled_ips' =
             IF cmd.target_ip.some /\ Len(cmd.target_ip.str) > 0
             THEN throttled_ips \cup {cmd.target_ip.str}
             ELSE throttled_ips
         /\ UNCHANGED running
    ELSE IF cmd.type = "unthrottle_ip"
    THEN /\ throttled_ips' =
             IF cmd.target_ip.some /\ Len(cmd.target_ip.str) > 0
             THEN throttled_ips \ {cmd.target_ip.str}
             ELSE throttled_ips
         /\ UNCHANGED running
    ELSE IF cmd.type = "shutdown"
    THEN /\ running' = FALSE
         /\ UNCHANGED throttled_ips
    ELSE UNCHANGED <<throttled_ips, running>>

\* A membership test that never finds the source.
IsThrottledNever(src_ip) == FALSE

\* "ip_throttled = src_ip in self.throttled_ips"
IsThrottled(src_ip) == src_ip \in throttled_ips

\* A decision that looks at the bucket alone.
ShouldDropBucketOnly(throttled, allowed) == ~allowed

\* "should_drop = ip_throttled or not allowed"
ShouldDrop(throttled, allowed) == throttled \/ ~allowed

(***************************************************************************)
(* LRUCache.  The OrderedDict is the sequence of its items, least recently *)
(* used first; a profile is an object, named by a number, whose            *)
(* last_access field lives in last_access[p] and is shared by every        *)
(* reference to it.  The clock is in seconds.                              *)
(***************************************************************************)
CacheKeys == 1..NumKeys
Profiles == 1..NumProfiles

\* get() returning None: no profile.
NoProfile == 0

\* IPProfile.last_access defaults to 0.0.
LastAccessDefault == 0

\* LRUCache.__init__
CacheInit(size, ttl_hours) ==
    /\ max_size = size
    /\ ttl_seconds = ttl_hours * SecondsPerHour
    /\ cache = <<>>
    /\ last_access = [p \in Profiles |-> LastAccessDefault]
    /\ monotonic = 0
    /\ cache_ret = [op |-> "none", key |-> 0, found |-> FALSE,
                    val |-> NoProfile, raised |-> FALSE, evicted |-> {}]

\* The keys of the dictionary.
KeysOf(c) == {c[i].k : i \in DOMAIN c}

\* key in self._cache
Contains(c, key) == \E i \in DOMAIN c : c[i].k = key

\* self._cache[key], for a key that is present
Lookup(c, key) == c[CHOOSE i \in DOMAIN c : c[i].k = key].v

\* del self._cache[key]
Delete(c, key) == SelectSeq(c, LAMBDA it : it.k # key)

\* A get that leaves the entry where it is.
move_to_end_not(c, key) == c

\* OrderedDict.move_to_end(key)
move_to_end(c, key) == Append(Delete(c, key), [k |-> key, v |-> Lookup(c, key)])

\* A popitem that takes the newest item: popitem(last=True).
popitem_last(c) == SubSeq(c, 1, Len(c) - 1)

\* OrderedDict.popitem(last=False), on a dictionary that is not empty
popitem_first(c) == Tail(c)

\* self._cache[key] = value: an existing key keeps its place, a new one is last.
SetItem(c, key, value) ==
    IF Contains(c, key)
    THEN [i \in DOMAIN c |-> IF c[i].k = key THEN [k |-> key, v |-> value] ELSE c[i]]
    ELSE Append(c, [k |-> key, v |-> value])

\* An eviction loop that stops one entry too late.
EvictLate(c) == IF Len(c) > max_size THEN popitem_first(c) ELSE c

RECURSIVE Evict(_)
\* while len(self._cache) >= self.max_size: self._cache.popitem(last=False)
\* (only reached with a dictionary that popitem can empty below max_size)
Evict(c) == IF Len(c) >= max_size THEN Evict(popitem_first(c)) ELSE c

\* "Check TTL": now - profile.last_access > self.ttl_seconds
Expired(now, accessed) == now - accessed > ttl_seconds

\* LRUCache.get(key), the whole body under self._lock.
get(key) ==
    IF ~Contains(cache, key)
    THEN /\ cache_ret' = [op |-> "get", key |-> key, found |-> FALSE,
                              val |-> NoProfile, raised |-> FALSE, evicted |-> {}]
         /\ UNCHANGED <<max_size, ttl_seconds, cache, last_access, monotonic>>
    ELSE LET profile == Lookup(cache, key) IN
         IF Expired(monotonic, last_access[profile])
         THEN /\ cache' = Delete(cache, key)
              /\ cache_ret' = [op |-> "get", key |-> key, found |-> FALSE,
                              val |-> NoProfile, raised |-> FALSE, evicted |-> {}]
              /\ UNCHANGED <<max_size, ttl_seconds, last_access, monotonic>>
         ELSE /\ cache' = move_to_end(cache, key)
              /\ last_access' = [last_access EXCEPT ![profile] = monotonic]
              /\ cache_ret' = [op |-> "get", key |-> key, found |-> TRUE,
                              val |-> profile, raised |-> FALSE, evicted |-> {}]
              /\ UNCHANGED <<max_size, ttl_seconds, monotonic>>

\* LRUCache.put(key, value), the whole body under self._lock.  With
\* max_size <= 0 the eviction loop pops an empty dictionary: KeyError.
put(key, value) ==
    /\ last_access' = [last_access EXCEPT ![value] = monotonic]
    /\ IF Contains(cache, key)
       THEN /\ cache' = SetItem(move_to_end(cache, key), key, value)
            /\ cache_ret' = [op |-> "put", key |-> key, found |-> FALSE,
                             val |-> NoProfile, raised |-> FALSE, evicted |-> {}]
       ELSE IF max_size <= 0
            THEN /\ cache' = cache
                 /\ cache_ret' = [op |-> "put", key |-> key, found |-> FALSE,
                                  val |-> NoProfile, raised |-> TRUE,
                                  evicted |-> {}]
            ELSE /\ cache' = SetItem(Evict(cache), key, value)
                 /\ cache_ret' = [op |-> "put", key |-> key, found |-> FALSE,
                                  val |-> NoProfile, raised |-> FALSE,
                                  evicted |-> KeysOf(cache) \ KeysOf(Evict(cache))]
    /\ UNCHANGED <<max_size, ttl_seconds, monotonic>>

(***************************************************************************)
(* Threads calling TokenBucket.consume.  A call tests num_bytes, takes     *)
(* self._lock, reads the clock and the bucket's fields, writes them back   *)
(* and releases the lock as it returns.  Reading and writing are separate  *)
(* steps, so that what the lock does shows.                                *)
(***************************************************************************)
Threads == 1..NumThreads

NoLocals == [tokens |-> 0, last_update |-> 0, now |-> 0, packet_count |-> 0,
             total_bytes |-> 0, throttled_count |-> 0, throttled_bytes |-> 0]

NoCalls == [made |-> 0, bytes |-> 0, refused |-> 0, contended |-> FALSE]

ThreadsInit ==
    /\ bucket_lock = 0
    /\ thr_pc = [t \in Threads |-> "idle"]
    /\ thr_n = [t \in Threads |-> 0]
    /\ thr_loc = [t \in Threads |-> NoLocals]
    /\ calls = NoCalls

\* A consume that does not wait for the lock.
LockIgnored == TRUE

\* "with self._lock": the lock can be taken when no thread holds it.
LockFree == bucket_lock = 0

\* A thread calls consume(n) with n >= 0 and reaches "with self._lock".
ThrCall(t, n) ==
    /\ thr_pc[t] = "idle"
    /\ n >= 0
    /\ calls.made < MaxThreadCalls
    /\ thr_pc' = [thr_pc EXCEPT ![t] = "acquire"]
    /\ thr_n' = [thr_n EXCEPT ![t] = n]
    /\ calls' = [calls EXCEPT !.made = @ + 1, !.bytes = @ + n]
    /\ UNCHANGED <<bucket_lock, thr_loc, bucketVars>>

\* The thread takes the lock.
ThrAcquire(t) ==
    /\ thr_pc[t] = "acquire"
    /\ LockFree
    /\ bucket_lock' = t
    /\ thr_pc' = [thr_pc EXCEPT ![t] = "load"]
    /\ calls' = [calls EXCEPT !.contended =
                    @ \/ (\E u \in Threads \ {t} : thr_pc[u] = "acquire")]
    /\ UNCHANGED <<thr_n, thr_loc, bucketVars>>

\* "now = time.perf_counter()" and the reads of the bucket's fields.
ThrLoad(t) ==
    /\ thr_pc[t] = "load"
    /\ thr_loc' = [thr_loc EXCEPT ![t] =
                      [tokens |-> tokens, last_update |-> last_update,
                       now |-> perf_counter, packet_count |-> bkt_packet_count,
                       total_bytes |-> bkt_total_bytes,
                       throttled_count |-> bkt_throttled_count,
                       throttled_bytes |-> bkt_throttled_bytes]]
    /\ thr_pc' = [thr_pc EXCEPT ![t] = "store"]
    /\ UNCHANGED <<bucket_lock, thr_n, calls, bucketVars>>

\* The writes of the bucket's fields, the release of the lock and the return.
ThrStore(t) ==
    /\ thr_pc[t] = "store"
    /\ LET loc == thr_loc[t]
           refilled == Refill(loc.tokens, loc.now - loc.last_update)
           allowed == Sufficient(refilled, thr_n[t])
       IN  /\ last_update' = loc.now
           /\ bkt_packet_count' = loc.packet_count + 1
           /\ bkt_total_bytes' = loc.total_bytes + thr_n[t]
           /\ tokens' = IF allowed THEN Spend(refilled, thr_n[t]) ELSE refilled
           /\ bkt_throttled_count' = IF allowed THEN loc.throttled_count
                                     ELSE loc.throttled_count + 1
           /\ bkt_throttled_bytes' = IF allowed THEN loc.throttled_bytes
                                     ELSE loc.throttled_bytes + thr_n[t]
           /\ consume_ret' = [status |-> "returned", allowed |-> allowed,
                              wait |-> IF allowed THEN [num |-> 0, den |-> 1]
                                       ELSE WaitTime(thr_n[t], refilled)]
           /\ calls' = [calls EXCEPT !.refused = IF allowed THEN @ ELSE @ + 1]
    /\ bucket_lock' = 0
    /\ thr_pc' = [thr_pc EXCEPT ![t] = "idle"]
    /\ thr_loc' = [thr_loc EXCEPT ![t] = NoLocals]
    /\ UNCHANGED <<thr_n, rate, bucket_size, perf_counter>>

(***************************************************************************)
(* Framing (ipc.py).  A frame is a 4-byte big-endian length and a body.    *)
(* Both pipes are created PIPE_TYPE_MESSAGE without PIPE_READMODE_MESSAGE  *)
(* and opened with CreateFile: both ends read bytes, and ReadFile(h, k)    *)
(* returns the next k bytes in the pipe, or those there are.  The bytes in *)
(* the pipe are kept as segments: the header of a frame, then its body;    *)
(* pos is the number of bytes of the segment already read.  The listener   *)
(* of the command pipe and receive_packet on the packet pipe make the same *)
(* reads and tests in the same order.                                      *)
(***************************************************************************)
Pow256(i) == IF i = 0 THEN 1 ELSE IF i = 1 THEN 256
             ELSE IF i = 2 THEN 65536 ELSE 16777216

\* struct.pack('>I', v)[i], i in 0..3
PackedByte(v, i) == (v \div Pow256(3 - i)) % 256

SegSize(seg) == IF seg.kind = "hdr" THEN HEADER_SIZE ELSE seg.len

\* The byte number i of a segment: of a header, the packed length; of a
\* body, its first word and then text.
SegByte(seg, i) ==
    IF seg.kind = "hdr" THEN PackedByte(seg.len, i)
    ELSE IF i < HEADER_SIZE THEN PackedByte(seg.lead, i) ELSE JsonByte

\* The first k bytes of the pipe, or those there are.
RECURSIVE FirstBytes(_, _)
FirstBytes(st, k) ==
    IF k = 0 \/ st = <<>> THEN <<>>
    ELSE LET seg == Head(st) IN
         IF seg.pos >= SegSize(seg) THEN FirstBytes(Tail(st), k)
         ELSE <<SegByte(seg, seg.pos)>>
              \o FirstBytes(<<[seg EXCEPT !.pos = @ + 1]>> \o Tail(st), k - 1)

\* The pipe after k bytes, or those there are, have been read.
RECURSIVE DropBytes(_, _)
DropBytes(st, k) ==
    IF st = <<>> THEN <<>>
    ELSE LET seg == Head(st)
             left == SegSize(seg) - seg.pos
         IN  IF k >= left THEN DropBytes(Tail(st), k - left)
             ELSE IF k = 0 THEN st
             ELSE <<[seg EXCEPT !.pos = @ + k]>> \o Tail(st)

\* struct.unpack('>I', header)[0], for a header whose first byte is 0; with
\* another first byte the number is 2^24 or more.
Unpack(b) == b[2] * Pow256(2) + b[3] * Pow256(1) + b[4]

\* "msg_len > BUFFER_SIZE"
ExceedsBuffer(b) == b[1] > 0 \/ Unpack(b) > BUFFER_SIZE

\* to_bytes: struct.pack(HEADER_FORMAT, len(data)) + data
Frame(id, len, lead, json) ==
    <<[kind |-> "hdr", len |-> len, lead |-> 0, pos |-> 0, id |-> id, json |-> json],
      [kind |-> "body", len |-> len, lead |-> lead, pos |-> 0, id |-> id, json |-> json]>>

\* from_bytes(data) returns a record when data is the whole body of a frame
\* whose body is a JSON document; of anything else json.loads raises.
Decodes(st, msg_len) ==
    /\ st # <<>>
    /\ Head(st).kind = "body"
    /\ Head(st).pos = 0
    /\ Head(st).len = msg_len
    /\ Head(st).json

FramesInit ==
    /\ stream = <<>>
    /\ rd_pc = "header"
    /\ rd_len = 0
    /\ delivered = <<>>
    /\ frames = [written |-> 0, good |-> <<>>]

\* "if msg_len > BUFFER_SIZE: logger.warning(...); continue" (the listener),
\* "return None" (receive_packet): nothing more is read of the frame.
SkipOversized(st, header) == st

\* "hr, header = ReadFile(pipe, HEADER_SIZE)" and the two tests on it.
ReadHeader ==
    /\ rd_pc = "header"
    /\ stream # <<>>
    /\ LET header == FirstBytes(stream, HEADER_SIZE)
           rest == DropBytes(stream, HEADER_SIZE)
       IN  IF Len(header) < HEADER_SIZE
           THEN /\ stream' = rest
                /\ UNCHANGED <<rd_pc, rd_len>>
           ELSE IF ExceedsBuffer(header)
           THEN /\ stream' = SkipOversized(rest, header)
                /\ UNCHANGED <<rd_pc, rd_len>>
           ELSE /\ stream' = rest
                /\ rd_pc' = "body"
                /\ rd_len' = Unpack(header)
    /\ UNCHANGED <<delivered, frames>>

\* "hr, data = ReadFile(pipe, msg_len)", then from_bytes(data); an exception
\* of from_bytes is logged and the loop goes on.
ReadBody ==
    /\ rd_pc = "body"
    /\ stream # <<>> \/ rd_len = 0
    /\ delivered' = IF Decodes(stream, rd_len)
                    THEN Append(delivered, Head(stream).id)
                    ELSE delivered
    /\ stream' = DropBytes(stream, rd_len)
    /\ rd_pc' = "header"
    /\ rd_len' = 0
    /\ UNCHANGED frames

\* The writer's WriteFile of a whole frame: a well-formed one...
WriteGoodFrame ==
    /\ frames.written < MaxFrames
    /\ LET id == frames.written + 1 IN
       /\ stream' = stream \o Frame(id, GoodBodyLen, JsonWord, TRUE)
       /\ frames' = [written |-> id, good |-> Append(frames.good, id)]
    /\ UNCHANGED <<rd_pc, rd_len, delivered>>

\* ... or one whose length is above BUFFER_SIZE, with a body of that length
\* that begins with the given word.
WriteOversizedFrame(len, lead) ==
    /\ frames.written < MaxFrames
    /\ len > BUFFER_SIZE
    /\ LET id == frames.written + 1 IN
       /\ stream' = stream \o Frame(id, len, lead, FALSE)
       /\ frames' = [frames EXCEPT !.written = id]
    /\ UNCHANGED <<rd_pc, rd_len, delivered>>

(***************************************************************************)
(* sanitize_ip (models.py)                                                 *)
(***************************************************************************)
Invalid == <<"i", "n", "v", "a", "l", "i", "d">>

\* "if not re.match(...): return 'invalid'", else "return ip[:45]"
sanitize_ip(ip) ==
    IF ~PatternMatches(ip) THEN Invalid
    ELSE SubSeq(ip, 1, Min(Len(ip), MaxIpLen))

SanitizeIpInit ==
    /\ sip_in = <<>>
    /\ sip_out = NoneStr

(***************************************************************************)
(* sanitize_string and IPProfile (models.py)                               *)
(***************************************************************************)
\* Characters of DANGEROUS_CHARS, [\x00-\x1f\x7f-\x9f]: samples of both ranges.
DangerousChars == {LF, "U+0000", "U+007F", "U+0085"}

\* Characters str.strip() removes that are not among those: the space and
\* the no-break space.
WhitespaceChars == {" ", "U+00A0"}

RECURSIVE LStrip(_)
LStrip(s) == IF s # <<>> /\ Head(s) \in WhitespaceChars THEN LStrip(Tail(s)) ELSE s

RECURSIVE RStrip(_)
RStrip(s) == IF s # <<>> /\ s[Len(s)] \in WhitespaceChars
             THEN RStrip(SubSeq(s, 1, Len(s) - 1)) ELSE s

Ellipsis == <<".", ".", ".">>

\* str(None)
NoneText == <<"N", "o", "n", "e">>

\* sanitize_string(value, max_length); value is a str or None.
sanitize_string(value, max_length) ==
    LET text == IF value.some THEN value.str ELSE NoneText
        kept == SelectSeq(text, LAMBDA c : c \notin DangerousChars)
        cut == IF Len(kept) > max_length
               THEN SubSeq(kept, 1, max_length - 3) \o Ellipsis
               ELSE kept
    IN  LStrip(RStrip(cut))

Unknown == <<"U", "n", "k", "n", "o", "w", "n">>
Reserved == <<"R", "e", "s", "e", "r", "v", "e", "d">>
LookupFailed == <<"L", "o", "o", "k", "u", "p", " ", "F", "a", "i", "l", "e", "d">>

\* The max_length __post_init__ and update_whois pass for each field.
FieldMax == [country |-> 10, asn |-> 20, asn_description |-> 128,
             network_name |-> 128, network_cidr |-> 50, abuse_contact |-> 128]

WhoisFields == DOMAIN FieldMax

\* update_whois(country, asn, asn_desc, network_name, network_cidr, abuse)
update_whois(profile, res) ==
    [f \in DOMAIN profile |->
        IF f \in WhoisFields THEN sanitize_string(res[f], FieldMax[f])
        ELSE profile[f]]

\* IPProfile(ip=ip, first_seen=now, last_seen=now) and __post_init__
NewProfile(ip) ==
    update_whois([ip |-> sanitize_ip(ip), country |-> Unknown, asn |-> Unknown,
                  asn_description |-> Unknown, network_name |-> Unknown,
                  network_cidr |-> Unknown, abuse_contact |-> Unknown],
                 [f \in WhoisFields |-> Str(Unknown)])

(***************************************************************************)
(* ipaddress.ip_address of a string without ":" (the IPv4 form), and the   *)
(* three properties _is_private_ip reads.                                  *)
(***************************************************************************)
AsciiDigits == <<"0", "1", "2", "3", "4", "5", "6", "7", "8", "9">>

DigitVal(c) == (CHOOSE i \in 1..10 : AsciiDigits[i] = c) - 1

IsAsciiDigit(c) == \E i \in 1..10 : AsciiDigits[i] = c

\* The pieces of s between the dots.
RECURSIVE SplitDots(_)
SplitDots(s) ==
    IF \A i \in 1..Len(s) : s[i] # "."
    THEN <<s>>
    ELSE LET d == CHOOSE i \in 1..Len(s) :
                      s[i] = "." /\ \A j \in 1..(i - 1) : s[j] # "."
         IN  <<SubSeq(s, 1, d - 1)>> \o SplitDots(SubSeq(s, d + 1, Len(s)))

RECURSIVE DecimalVal(_)
DecimalVal(s) == IF s = <<>> THEN 0
                 ELSE 10 * DecimalVal(SubSeq(s, 1, Len(s) - 1)) + DigitVal(s[Len(s)])

\* _parse_octet: ASCII digits, at most three, no leading zero, at most 255.
OctetOk(o) ==
    /\ Len(o) \in 1..3
    /\ \A i \in 1..Len(o) : IsAsciiDigit(o[i])
    /\ (Len(o) > 1 => o[1] # "0")
    /\ DecimalVal(o) <= 255

\* ip_address(ip) does not raise ValueError.
Parses(ip) ==
    /\ Len(SplitDots(ip)) = 4
    /\ \A i \in 1..4 : OctetOk(SplitDots(ip)[i])

Octets(ip) == [i \in 1..4 |-> DecimalVal(SplitDots(ip)[i])]

\* IPv4Address.is_loopback: 127.0.0.0/8
is_loopback(a) == a[1] = 127

\* IPv4Address.is_reserved: 240.0.0.0/4
is_reserved(a) == a[1] >= 240

\* IPv4Address.is_private: the address is in one of the networks of
\* _private_networks.
is_private(a) ==
    \/ a[1] = 0
    \/ a[1] = 10
    \/ a[1] = 127
    \/ a[1] = 169 /\ a[2] = 254
    \/ a[1] = 172 /\ a[2] \in 16..31
    \/ a[1] = 192 /\ a[2] = 0 /\ a[3] = 0 /\ a[4] \in 0..7
    \/ a[1] = 192 /\ a[2] = 0 /\ a[3] = 0 /\ a[4] \in 170..171
    \/ a[1] = 192 /\ a[2] = 0 /\ a[3] = 2
    \/ a[1] = 192 /\ a[2] = 168
    \/ a[1] = 198 /\ a[2] \in 18..19
    \/ a[1] = 198 /\ a[2] = 51 /\ a[3] = 100
    \/ a[1] = 203 /\ a[2] = 0 /\ a[3] = 113
    \/ a[1] >= 240

(***************************************************************************)
(* ThreatIntel (intel/threat_intel.py): get_or_create_profile, called by   *)
(* the analyzer's packet loop, and the lookup worker thread.  cache.get    *)
(* and cache.put are the cache's operations above, the keys being IP       *)
(* strings and the values the profile objects.                             *)
(***************************************************************************)
\* An _is_private_ip that does not read is_reserved and takes a string that
\* does not parse for a public address.
IsPrivateIpLax(ip) ==
    /\ Parses(ip)
    /\ \/ (is_private(Octets(ip)) /\ ~is_reserved(Octets(ip)))
       \/ is_loopback(Octets(ip))

\* ThreatIntel._is_private_ip
IsPrivateIp(ip) ==
    IF Parses(ip)
    THEN is_private(Octets(ip)) \/ is_loopback(Octets(ip)) \/ is_reserved(Octets(ip))
    ELSE TRUE

NoFields == [ip |-> <<>>, country |-> <<>>, asn |-> <<>>, asn_description |-> <<>>,
             network_name |-> <<>>, network_cidr |-> <<>>, abuse_contact |-> <<>>]

NoGoc == [called |-> FALSE, ip |-> <<>>, some |-> FALSE, val |-> NoProfile]

IntelInit ==
    /\ fields = [p \in Profiles |-> NoFields]
    /\ lookup_queue = <<>>
    /\ goc_pc = "idle"
    /\ goc_ip = <<>>
    /\ goc_ret = NoGoc
    /\ intel_calls = 0

\* get_or_create_profile(ip) up to its first return or to "Create new
\* profile": the test of the address and cache.get(ip).
GocBegin(ip) ==
    /\ goc_pc = "idle"
    /\ intel_calls < MaxIntelCalls
    /\ intel_calls' = intel_calls + 1
    /\ goc_ip' = ip
    /\ IF IsPrivateIp(ip)
       THEN /\ goc_ret' = [called |-> TRUE, ip |-> ip, some |-> FALSE,
                           val |-> NoProfile]
            /\ goc_pc' = "idle"
            /\ UNCHANGED cacheVars
       ELSE /\ get(ip)
            /\ goc_ret' = [called |-> TRUE, ip |-> ip, some |-> cache_ret'.found,
                           val |-> cache_ret'.val]
            /\ goc_pc' = IF cache_ret'.found THEN "idle" ELSE "create"
    /\ UNCHANGED <<fields, lookup_queue>>

\* "profile = IPProfile(...)" and "self.cache.put(ip, profile)": the new
\* object is one no entry of the cache refers to.
GocCreate(p) ==
    /\ goc_pc = "create"
    /\ \A i \in DOMAIN cache : cache[i].v # p
    /\ fields' = [fields EXCEPT ![p] = NewProfile(goc_ip)]
    /\ put(goc_ip, p)
    /\ goc_ret' = [called |-> TRUE, ip |-> goc_ip, some |-> TRUE, val |-> p]
    /\ goc_pc' = "enqueue"
    /\ UNCHANGED <<lookup_queue, goc_ip, intel_calls>>

\* "self.lookup_queue.put_nowait(ip)", skipped when the queue is full, and
\* "return profile".
GocEnqueue ==
    /\ goc_pc = "enqueue"
    /\ lookup_queue' = IF Len(lookup_queue) < LookupQueueMax
                       THEN Append(lookup_queue, goc_ip)
                       ELSE lookup_queue
    /\ goc_pc' = "idle"
    /\ UNCHANGED <<fields, goc_ip, goc_ret, intel_calls, cacheVars>>

\* "profile.country = ..." in the except clauses of _do_whois_lookup
country_on_error(text) == text

\* One round of _lookup_worker: take an address from the queue; when the
\* rate limiter lets it, _do_whois_lookup(ip): cache.get(ip), and with a
\* profile, the lookup, which returns res or raises.
LookupWorker(limited, outcome, res) ==
    /\ lookup_queue # <<>>
    /\ lookup_queue' = Tail(lookup_queue)
    /\ IF limited
       THEN UNCHANGED <<fields, cacheVars>>
       ELSE /\ get(Head(lookup_queue))
            /\ fields' =
                 IF ~cache_ret'.found THEN fields
                 ELSE LET p == cache_ret'.val IN
                      IF outcome = "result"
                      THEN [fields EXCEPT ![p] = update_whois(@, res)]
                      ELSE IF outcome = "IPDefinedError"
                      THEN [fields EXCEPT ![p].country = country_on_error(Reserved)]
                      ELSE IF outcome \in {"HTTPLookupError", "WhoisLookupError"}
                      THEN [fields EXCEPT ![p].country = country_on_error(LookupFailed)]
                      ELSE fields
    /\ UNCHANGED <<goc_pc, goc_ip, goc_ret, intel_calls>>

(***************************************************************************)
(* EventLogger (loggers/event_logger.py): log_event and log_traffic put a  *)
(* record on the queue; the writer thread takes records off it and writes  *)
(* them; flush() and stop().  A record is a number.                        *)
(***************************************************************************)
LoggerInit ==
    /\ write_queue = <<>>
    /\ log_running = TRUE
    /\ writer_pc = "check"
    /\ writer_item = 0
    /\ events_file = <<>>
    /\ accepted = <<>>
    /\ flush_pc = "idle"
    /\ flush_snap = {}
    /\ stop_pc = "idle"
    /\ stop_snap = {}
    /\ log_ret = "none"
    /\ log_calls = 0

Range(q) == {q[i] : i \in DOMAIN q}

\* log_event / log_traffic: put_nowait; a full queue drops the record.
\* A queue that is never full.
QueueNeverFull(q) == FALSE

\* Queue(maxsize=10000).full()
QueueFull(q) == Len(q) >= WriteQueueMax

\* put_nowait(item): the item is appended, or queue.Full is raised.
put_nowait(q, item) ==
    IF QueueFull(q) THEN [raised |-> TRUE, queue |-> q]
    ELSE [raised |-> FALSE, queue |-> Append(q, item)]

\* log_event / log_traffic: put_nowait inside "try: ... except Exception:
\* pass", so a full queue drops the record and the call returns.
LogRecord ==
    /\ log_calls < MaxRecords
    /\ log_calls' = log_calls + 1
    /\ LET res == put_nowait(write_queue, Len(accepted) + 1)
       IN  /\ write_queue' = res.queue
           /\ accepted' = IF res.raised THEN accepted
                          ELSE Append(accepted, Len(accepted) + 1)
           /\ log_ret' = IF res.raised THEN "dropped" ELSE "queued"
    /\ UNCHANGED <<log_running, writer_pc, writer_item, events_file, flush_pc,
                   flush_snap, stop_pc, stop_snap>>

\* _writer_worker: "while self._running:"
WriterCheck ==
    /\ writer_pc = "check"
    /\ writer_pc' = IF log_running THEN "get" ELSE "exited"
    /\ UNCHANGED <<log_ret, log_calls, write_queue, log_running, writer_item, events_file, accepted,
                   flush_pc, flush_snap, stop_pc, stop_snap>>

\* "item = self._write_queue.get(timeout=0.5)": an item, or Empty after the
\* timeout and "continue".
WriterGet ==
    /\ writer_pc = "get"
    /\ IF write_queue # <<>>
       THEN /\ writer_item' = Head(write_queue)
            /\ write_queue' = Tail(write_queue)
            /\ writer_pc' = "write"
       ELSE /\ writer_pc' = "check"
            /\ UNCHANGED <<writer_item, write_queue>>
    /\ UNCHANGED <<log_ret, log_calls, log_running, events_file, accepted, flush_pc, flush_snap,
                   stop_pc, stop_snap>>

\* "self._process_write(item)": the record is appended to its file.
WriterWrite ==
    /\ writer_pc = "write"
    /\ events_file' = Append(events_file, writer_item)
    /\ writer_item' = 0
    /\ writer_pc' = "check"
    /\ UNCHANGED <<log_ret, log_calls, write_queue, log_running, accepted, flush_pc, flush_snap,
                   stop_pc, stop_snap>>

\* flush(): "while not self._write_queue.empty(): time.sleep(0.1)"
QueueDrained == write_queue = <<>>

\* flush() is called.
FlushCall ==
    /\ flush_pc = "idle"
    /\ flush_pc' = "poll"
    /\ flush_snap' = Range(accepted)
    /\ UNCHANGED <<log_ret, log_calls, write_queue, log_running, writer_pc, writer_item, events_file,
                   accepted, stop_pc, stop_snap>>

\* flush() finds the queue empty and returns.
FlushReturn ==
    /\ flush_pc = "poll"
    /\ QueueDrained
    /\ flush_pc' = "returned"
    /\ UNCHANGED <<log_ret, log_calls, write_queue, log_running, writer_pc, writer_item, events_file,
                   accepted, flush_snap, stop_pc, stop_snap>>

\* stop(): "self._running = False"
StopCall ==
    /\ stop_pc = "idle"
    /\ log_running' = FALSE
    /\ stop_pc' = "join"
    /\ stop_snap' = Range(accepted)
    /\ UNCHANGED <<log_ret, log_calls, write_queue, writer_pc, writer_item, events_file, accepted,
                   flush_pc, flush_snap>>

\* "self._writer_thread.join(timeout=2.0)" returns: the writer has exited,
\* or the two seconds have passed.
StopJoin ==
    /\ stop_pc = "join"
    /\ stop_pc' = "returned"
    /\ UNCHANGED <<log_ret, log_calls, write_queue, log_running, writer_pc, writer_item, events_file,
                   accepted, flush_pc, flush_snap, stop_snap>>

(***************************************************************************)
(* EventLogger.save_watchlist and a reader of the watchlist path.  A file  *)
(* is absent, or holds a document in part or whole.  A save writes the     *)
(* temporary file and renames it onto the path, under the watchlist lock;  *)
(* an exception inside is logged and save_watchlist returns.               *)
(***************************************************************************)
Savers == 1..NumSavers

Absent == [state |-> "absent", doc |-> 0]

WatchlistInit ==
    /\ wl_file = Absent
    /\ tmp_file = Absent
    /\ wl_lock = 0
    /\ saver_pc = [t \in Savers |-> "idle"]
    /\ saver_doc = [t \in Savers |-> 0]
    /\ saves = [begun |-> 0, completed |-> {}]
    /\ reader_pc = "idle"
    /\ reader_handle = Absent
    /\ reader_seen = [state |-> "nothing", doc |-> 0]

\* save_watchlist(watchlist) is called: the document is built.
SaveCall(t) ==
    /\ saver_pc[t] = "idle"
    /\ saves.begun < MaxSaves
    /\ saves' = [saves EXCEPT !.begun = @ + 1]
    /\ saver_doc' = [saver_doc EXCEPT ![t] = saves.begun + 1]
    /\ saver_pc' = [saver_pc EXCEPT ![t] = "lock"]
    /\ UNCHANGED <<wl_file, tmp_file, wl_lock, reader_pc, reader_handle, reader_seen>>

\* "with self._watchlist_lock:"
SaveLock(t) ==
    /\ saver_pc[t] = "lock"
    /\ wl_lock = 0
    /\ wl_lock' = t
    /\ saver_pc' = [saver_pc EXCEPT ![t] = "open"]
    /\ UNCHANGED <<wl_file, tmp_file, saver_doc, saves, reader_pc, reader_handle,
                   reader_seen>>

\* "open(temp_file, 'w')": the temporary file exists and is empty.
SaveOpenTemp(t) ==
    /\ saver_pc[t] = "open"
    /\ tmp_file' = [state |-> "partial", doc |-> saver_doc[t]]
    /\ saver_pc' = [saver_pc EXCEPT ![t] = "dump"]
    /\ UNCHANGED <<wl_file, wl_lock, saver_doc, saves, reader_pc, reader_handle,
                   reader_seen>>

\* "json.dump(data, f, ...)" and the close of the file.
SaveDump(t) ==
    /\ saver_pc[t] = "dump"
    /\ tmp_file' = [state |-> "complete", doc |-> saver_doc[t]]
    /\ saver_pc' = [saver_pc EXCEPT ![t] = "replace"]
    /\ UNCHANGED <<wl_file, wl_lock, saver_doc, saves, reader_pc, reader_handle,
                   reader_seen>>

\* "temp_file.replace(self.watchlist_file)": the outcomes of the rename.
\* With the destination open in a reader, MoveFileEx is refused on Windows
\* (the reader's handle was not opened with FILE_SHARE_DELETE) and replace
\* raises PermissionError.
ReplaceOutcomes ==
    IF reader_pc = "open" /\ reader_handle.state # "absent"
    THEN {"replaced", "PermissionError"}
    ELSE {"replaced"}

\* The rename, the release of the lock and the return of save_watchlist.
SaveReplace(t, outcome) ==
    /\ saver_pc[t] = "replace"
    /\ outcome \in ReplaceOutcomes
    /\ IF outcome = "replaced"
       THEN /\ wl_file' = tmp_file
            /\ tmp_file' = Absent
            /\ saves' = [saves EXCEPT !.completed = @ \cup {saver_doc[t]}]
       ELSE UNCHANGED <<wl_file, tmp_file, saves>>
    /\ wl_lock' = 0
    /\ saver_pc' = [saver_pc EXCEPT ![t] = "idle"]
    /\ UNCHANGED <<saver_doc, reader_pc, reader_handle, reader_seen>>

\* A reader opens the watchlist path.
ReaderOpen ==
    /\ reader_pc = "idle"
    /\ reader_handle' = wl_file
    /\ reader_pc' = "open"
    /\ UNCHANGED <<wl_file, tmp_file, wl_lock, saver_pc, saver_doc, saves,
                   reader_seen>>

\* The reader reads the file it opened (nothing, when there was no file)
\* and closes it.
ReaderRead ==
    /\ reader_pc = "open"
    /\ reader_seen' = reader_handle
    /\ reader_handle' = Absent
    /\ reader_pc' = "idle"
    /\ UNCHANGED <<wl_file, tmp_file, wl_lock, saver_pc, saver_doc, saves>>

(***************************************************************************)
(* EventLogger in integrity mode (enable_integrity, with the secret set):  *)
(* _write_event signs an event line, save_watchlist signs each entry, and  *)
(* verify_integrity checks a file.  A record is its items in the order of  *)
(* the dict, each a key and a value.                                       *)
(***************************************************************************)
NoFile == [suffix |-> "none", entries |-> <<>>]

NotCalled == [called |-> FALSE, result |-> FALSE, file |-> NoFile]

IntegrityInit ==
    /\ sig_file = NoFile
    /\ sig_written = NoFile
    /\ verify_ret = NotCalled

\* The place of a key among the keys in sorted order ('_' sorts before the
\* lower-case letters).
KeyRank(k) ==
    CASE k = "_sig" -> 0
      [] k = "country" -> 1
      [] k = "ip" -> 2
      [] k = "timestamp" -> 3

\* json.dumps(d) and json.dumps(d, sort_keys=True): the items in the order
\* of the dict, or sorted by key.
Dumps(d, sort_keys) ==
    IF ~sort_keys THEN d
    ELSE CHOOSE s \in [DOMAIN d -> {d[i] : i \in DOMAIN d}] :
             /\ {s[i] : i \in DOMAIN s} = {d[i] : i \in DOMAIN d}
             /\ \A i, j \in DOMAIN s : i < j => KeyRank(s[i].key) < KeyRank(s[j].key)

\* _compute_hmac under the one secret: equal texts have equal signatures,
\* and different texts are taken to have different ones.
compute_hmac(text) == [hmac |-> text]

Item(k, v) == [key |-> k, val |-> v]

\* ThreatEvent.to_dict(), IPProfile.to_dict(): the keys in the order written.
EventDict(ts, ip) == <<Item("timestamp", ts), Item("ip", ip)>>

ProfileDict(ip, country) == <<Item("ip", ip), Item("country", country)>>

\* dict.pop('_sig', None): the value, and the dict without the key.
Without(d, k) == SelectSeq(d, LAMBDA it : it.key # k)

HasKey(d, k) == \E i \in DOMAIN d : d[i].key = k

ValueOf(d, k) == d[CHOOSE i \in DOMAIN d : d[i].key = k].val

\* _write_event with enable_integrity: the line is signed as dumped in the
\* order of the dict, and written with the signature added.
WriteEvent(event_dict) ==
    /\ sig_file = NoFile
    /\ LET line == Dumps(event_dict, FALSE)
           signed == Append(event_dict, Item("_sig", compute_hmac(line)))
           file == [suffix |-> ".jsonl", entries |-> <<Dumps(signed, FALSE)>>]
       IN  /\ sig_file' = file
           /\ sig_written' = file
    /\ UNCHANGED verify_ret

\* save_watchlist with enable_integrity: each entry is signed as dumped with
\* sorted keys, and the array is written.
SaveSigned(watchlist) ==
    /\ sig_file = NoFile
    /\ LET data == [i \in DOMAIN watchlist |->
                       Append(watchlist[i],
                              Item("_sig", compute_hmac(Dumps(watchlist[i], TRUE))))]
           file == [suffix |-> ".json", entries |-> data]
       IN  /\ sig_file' = file
           /\ sig_written' = file
    /\ UNCHANGED verify_ret

\* Someone changes the value of one key other than _sig in one record of
\* the file.
Tamper(i, k, v) ==
    /\ i \in DOMAIN sig_file.entries
    /\ k # "_sig"
    /\ HasKey(sig_file.entries[i], k)
    /\ ValueOf(sig_file.entries[i], k) # v
    /\ sig_file' = [sig_file EXCEPT !.entries[i] =
                       [j \in DOMAIN @ |-> IF @[j].key = k THEN Item(k, v) ELSE @[j]]]
    /\ UNCHANGED <<sig_written, verify_ret>>

\* verify_integrity(filepath), the secret being configured: only a file
\* whose suffix is .json is read; every other file verifies.
verify_integrity(file) ==
    IF file.suffix = ".json"
    THEN \A i \in DOMAIN file.entries :
             LET entry == file.entries[i]
             IN  /\ HasKey(entry, "_sig")
                 /\ ValueOf(entry, "_sig") =
                        compute_hmac(Dumps(Without(entry, "_sig"), TRUE))
    ELSE TRUE

VerifyIntegrity ==
    /\ sig_file # NoFile
    /\ verify_ret' = [called |-> TRUE, result |-> verify_integrity(sig_file),
                      file |-> sig_file]
    /\ UNCHANGED <<sig_file, sig_written>>

(***************************************************************************)
(* A function called once on an argument.                                  *)
(***************************************************************************)
NoArg == [fn |-> "none"]

CallInit ==
    /\ call_arg = NoArg
    /\ call_ret = NoArg

(***************************************************************************)
(* ThreatScorer.calculate (intel/scoring.py).  A text is the sequence of   *)
(* its characters; a reason is the rule that fired.                        *)
(***************************************************************************)
\* str.lower()
LowerChar(c) == IF c = "V" THEN "v" ELSE IF c = "X" THEN "x" ELSE c

Lower(s) == [i \in DOMAIN s |-> LowerChar(s[i])]

\* "keyword in asn_lower"
IsSubstring(k, s) ==
    /\ Len(k) <= Len(s)
    /\ \E i \in 0..(Len(s) - Len(k)) : SubSeq(s, i + 1, i + Len(k)) = k

\* A loop over the keywords that counts every keyword found.
AsnReasonsAll(asn_lower, keywords) ==
    [i \in 1..Len(SelectSeq(keywords, LAMBDA k : IsSubstring(k, asn_lower))) |-> "asn"]

\* "for keyword in ...: if keyword in asn_lower: ...; break": one reason for
\* the first keyword found, in the order the set is iterated.
AsnReasons(asn_lower, keywords) ==
    IF \E i \in DOMAIN keywords : IsSubstring(keywords[i], asn_lower)
    THEN <<"asn">>
    ELSE <<>>

\* calculate(profile), the keywords iterated in the order given.
calculate(profile, high_risk_countries, keywords) ==
    LET r1 == IF profile.country \in high_risk_countries THEN <<"country">> ELSE <<>>
        r2 == IF profile.max_speed_mbps > extreme_speed_threshold THEN <<"extreme">>
              ELSE IF profile.max_speed_mbps > high_speed_threshold THEN <<"high">>
              ELSE <<>>
        \* throttled / total > 0.5
        r3 == IF /\ profile.total_packets > MinSamplePackets
                 /\ 2 * profile.throttled_packets > profile.total_packets
              THEN <<"throttle">> ELSE <<>>
        r4 == AsnReasons(Lower(profile.asn_description), keywords)
        reasons == r1 \o r2 \o r3 \o r4
        weight(r) == CASE r = "country" -> score_high_risk_country
                       [] r = "extreme" -> score_extreme_speed
                       [] r = "high" -> score_high_speed
                       [] r = "throttle" -> score_high_throttle
                       [] r = "asn" -> score_suspicious_asn
        total[n \in 0..Len(reasons)] ==
            IF n = 0 THEN 0 ELSE total[n - 1] + weight(reasons[n])
    IN  [score |-> Min(total[Len(reasons)], ScoreCap), reasons |-> reasons]

CallCalculate ==
    /\ call_arg.fn = "calculate"
    /\ call_ret = NoArg
    /\ call_ret' = [fn |-> "calculate"] @@
                   calculate(call_arg.profile, call_arg.high_risk_countries,
                             call_arg.keywords)
    /\ UNCHANGED call_arg

(***************************************************************************)
(* The wire codec (ipc.py): to_bytes is json.dumps(asdict(self),           *)
(* separators=(',', ':')) behind a 4-byte big-endian length, from_bytes   *)
(* builds cls from json.loads(data).  A text is the sequence of its        *)
(* characters; a                                                           *)
(* Python value carries its type: t is "str", "int", "float", "nan",       *)
(* "bool", "none" or "dict".                                               *)
(***************************************************************************)
Quote == "QUOTE"
Backslash == "BACKSLASH"

PyStr(s) == [t |-> "str", v |-> s]
PyInt(n) == [t |-> "int", v |-> n]
PyFloat(n) == [t |-> "float", v |-> n]
PyNaN == [t |-> "nan", v |-> 0]
PyBool(b) == [t |-> "bool", v |-> b]
PyNone == [t |-> "none", v |-> 0]
PyDict(items) == [t |-> "dict", v |-> items]

\* The == of two Python values: float('nan') equals nothing, itself
\* included; dicts are equal when their items are.
PyEq(a, b) ==
    /\ a.t # "nan"
    /\ b.t # "nan"
    /\ a.t = b.t
    /\ IF a.t = "dict" THEN Range(a.v) = Range(b.v) ELSE a.v = b.v

DigitChars == <<"0", "1", "2", "3", "4", "5", "6", "7", "8", "9">>

RECURSIVE DecimalText(_)
DecimalText(n) ==
    IF n < 10 THEN <<DigitChars[n + 1]>>
    ELSE Append(DecimalText(n \div 10), DigitChars[(n % 10) + 1])

\* The escapes of json.dumps with ensure_ascii: the quote, the backslash,
\* the line feed, and \uXXXX for a character that is not ASCII.
EscapeChar(c) ==
    CASE c = Quote -> <<Backslash, Quote>>
      [] c = Backslash -> <<Backslash, Backslash>>
      [] c = LF -> <<Backslash, "n">>
      [] c = ArabicThree -> <<Backslash, "u", "0", "6", "6", "3">>
      [] OTHER -> <<c>>

RECURSIVE Flatten(_)
Flatten(ss) == IF ss = <<>> THEN <<>> ELSE Head(ss) \o Flatten(Tail(ss))

DumpStr(s) == <<Quote>> \o Flatten([i \in DOMAIN s |-> EscapeChar(s[i])]) \o <<Quote>>

\* json.dumps(value, separators=(',', ':'))
RECURSIVE json_dumps(_)
json_dumps(x) ==
    CASE x.t = "str" -> DumpStr(x.v)
      [] x.t = "int" -> DecimalText(x.v)
      [] x.t = "float" -> DecimalText(x.v) \o <<".", "0">>
      [] x.t = "nan" -> <<"N", "a", "N">>
      [] x.t = "bool" -> IF x.v THEN <<"t", "r", "u", "e">>
                         ELSE <<"f", "a", "l", "s", "e">>
      [] x.t = "none" -> <<"n", "u", "l", "l">>
      [] x.t = "dict" ->
            <<"{">>
            \o Flatten([i \in DOMAIN x.v |->
                    (IF i > 1 THEN <<",">> ELSE <<>>)
                    \o DumpStr(x.v[i].key) \o <<":">> \o json_dumps(x.v[i].val)])
            \o <<"}">>

\* to_bytes: struct.pack(HEADER_FORMAT, len(data)) + data
to_bytes(obj) ==
    LET data == json_dumps(obj)
    IN  [i \in 1..HEADER_SIZE |-> PackedByte(Len(data), i - 1)] \o data

\* The scanner of json.loads: a string from its opening quote at c[i], as
\* the text and the place after the closing quote.
RECURSIVE ScanStr(_, _, _)
ScanStr(c, i, acc) ==
    IF c[i] = Quote THEN [val |-> PyStr(acc), next |-> i + 1]
    ELSE IF c[i] # Backslash THEN ScanStr(c, i + 1, Append(acc, c[i]))
    ELSE IF c[i + 1] = "n" THEN ScanStr(c, i + 2, Append(acc, LF))
    ELSE IF c[i + 1] = "u" /\ SubSeq(c, i + 2, i + 5) = <<"0", "6", "6", "3">>
    THEN ScanStr(c, i + 6, Append(acc, ArabicThree))
    ELSE ScanStr(c, i + 2, Append(acc, c[i + 1]))

DigitValue(ch) == (CHOOSE k \in DOMAIN DigitChars : DigitChars[k] = ch) - 1

\* A number: digits, then ".0" for a float.
RECURSIVE ScanNum(_, _, _)
ScanNum(c, i, acc) ==
    IF i <= Len(c) /\ c[i] \in Range(DigitChars)
    THEN ScanNum(c, i + 1, 10 * acc + DigitValue(c[i]))
    ELSE IF i <= Len(c) /\ c[i] = "."
    THEN [val |-> PyFloat(acc), next |-> i + 2]
    ELSE [val |-> PyInt(acc), next |-> i]

RECURSIVE ScanValue(_, _)
RECURSIVE ScanItems(_, _, _)
\* The items of an object after its "{" or after a ",".
ScanItems(c, i, acc) ==
    IF c[i] = "}" THEN [val |-> PyDict(acc), next |-> i + 1]
    ELSE LET j == IF c[i] = "," THEN i + 1 ELSE i
             k == ScanStr(c, j + 1, <<>>)
             x == ScanValue(c, k.next + 1)
         IN  ScanItems(c, x.next, Append(acc, [key |-> k.val.v, val |-> x.val]))

ScanValue(c, i) ==
    CASE c[i] = Quote -> ScanStr(c, i + 1, <<>>)
      [] c[i] = "{" -> ScanItems(c, i + 1, <<>>)
      [] c[i] = "t" -> [val |-> PyBool(TRUE), next |-> i + 4]
      [] c[i] = "f" -> [val |-> PyBool(FALSE), next |-> i + 5]
      [] c[i] = "n" -> [val |-> PyNone, next |-> i + 4]
      [] c[i] = "N" -> [val |-> PyNaN, next |-> i + 3]
      [] OTHER -> ScanNum(c, i, 0)

\* from_bytes(data): json.loads, and cls built from the items as fields.
from_bytes(data) == ScanValue(data, 1).val

\* The value of a field of an object.
FieldOf(obj, name) == obj.v[CHOOSE i \in DOMAIN obj.v : obj.v[i].key = name].val

\* The round trip of the tests: to_bytes, the length unpacked from the
\* first four bytes, and from_bytes of that many bytes after them.
CallRoundTrip ==
    /\ call_arg.fn = "roundtrip"
    /\ call_ret = NoArg
    /\ LET data == to_bytes(call_arg.obj)
           msg_len == Unpack(SubSeq(data, 1, HEADER_SIZE))
           msg_data == SubSeq(data, HEADER_SIZE + 1, HEADER_SIZE + msg_len)
       IN  call_ret' = [fn |-> "roundtrip", data |-> data, msg_len |-> msg_len,
                        restored |-> from_bytes(msg_data)]
    /\ UNCHANGED call_arg

(***************************************************************************)
(* NetShieldConfig.validate (config.py) and the entry points that build    *)
(* the components from a configuration: main of service.py and main of     *)
(* __main__.py.                                                            *)
(***************************************************************************)
VALID_MODES == {"vrchat", "universal", "custom"}

\* validate(): the errors found, each named by its field.
validate(config) ==
    (IF config.mode \notin VALID_MODES THEN {"mode"} ELSE {})
    \cup (IF ~(MIN_BANDWIDTH_MBPS <= config.max_bandwidth_mbps
               /\ config.max_bandwidth_mbps <= MAX_BANDWIDTH_MBPS)
          THEN {"max_bandwidth_mbps"} ELSE {})
    \cup (IF ~(MIN_BURST_SIZE_MB <= config.burst_size_mb
               /\ config.burst_size_mb <= MAX_BURST_SIZE_MB)
          THEN {"burst_size_mb"} ELSE {})
    \cup (IF ~(0 <= config.watchlist_threshold /\ config.watchlist_threshold <= 100)
          THEN {"watchlist_threshold"} ELSE {})
    \cup (IF config.cache_max_size <= 0 THEN {"cache_max_size"} ELSE {})

\* MinimalService.__init__ (and ShieldEngine.__init__ alike): the bucket is
\* built from the configuration; TokenBucket.__init__ raises ValueError for a rate or a size that is not
\* positive.
MinimalServiceInit(config) ==
    IF config.max_bandwidth_mbps <= 0 \/ config.burst_size_mb <= 0
    THEN [outcome |-> "ValueError", rate_mb |-> 0, bucket_mb |-> 0]
    ELSE [outcome |-> "initialised", rate_mb |-> config.max_bandwidth_mbps,
          bucket_mb |-> config.burst_size_mb]

\* config.validate() is called.
CallValidate ==
    /\ call_arg.fn = "config"
    /\ call_ret = NoArg
    /\ call_ret' = [fn |-> "validate", errors |-> validate(call_arg.config)]
    /\ UNCHANGED call_arg

\* main() of service.py: the configuration is loaded and MinimalService is
\* built from it; validate() is not called.
ServiceMain ==
    /\ call_arg.fn = "config"
    /\ call_ret = NoArg
    /\ call_ret' = [fn |-> "service.main"] @@ MinimalServiceInit(call_arg.config)
    /\ UNCHANGED call_arg

\* main() of __main__.py: validate() first, and sys.exit(1) on any error.
PackageMain ==
    /\ call_arg.fn = "config"
    /\ call_ret = NoArg
    /\ call_ret' = IF validate(call_arg.config) # {}
                   THEN [fn |-> "__main__.main", outcome |-> "exit", rate_mb |-> 0,
                         bucket_mb |-> 0]
                   ELSE [fn |-> "__main__.main"] @@ MinimalServiceInit(call_arg.config)
    /\ UNCHANGED call_arg

\* Both processes run and are connected: IPCServer.start, IPCClient.connect
\* and Worker.run up to the call of _packet_loop.
CloseInit ==
    /\ srv_end = "open"
    /\ cli_end = "open"
    /\ lsn_pc = "read"
    /\ wrk_pc = "receive"
    /\ wrk_running = TRUE

\* The two loops that call w.recv().
Loops == {"ShieldEngine", "MinimalService"}

\* Both loops are entered: "error_count = 0", "while self.running".
RecvInit ==
    /\ rcv_live = [l \in Loops |-> TRUE]
    /\ error_count = 0
    /\ streak = [l \in Loops |-> 0]
    /\ recvs = [l \in Loops |-> 0]

\* Worker.__init__: no tracker yet.
NoAnalysis == [n |-> 0, src |-> <<>>, score |-> 0, sent |-> FALSE,
               queued |-> FALSE, before |-> 0, after |-> 0,
               rate |-> 0, profile |-> 0]

AnalyzerInit ==
    /\ ip_trackers = [ip \in {} |-> 0]
    /\ ana_ret = NoAnalysis

\* The analyzer's background loops that iterate over the tracker table.
Scanners == {"cleanup", "intel"}

\* Worker.__init__ and _start_background_tasks: the packet loop is between
\* two descriptors, both background loops are about to make their first pass.
TrackersInit ==
    /\ wall_clock = 0
    /\ pl_pc = "idle"
    /\ pl_ip = <<>>
    /\ pl_now = 0
    /\ scan_pc = [t \in Scanners |-> "sleep"]
    /\ scan_left = [t \in Scanners |-> {}]
    /\ scan_size = [t \in Scanners |-> 0]
    /\ cl_now = 0
    /\ old_ips = {}
    /\ scan_err = [t \in Scanners |-> 0]

\* No score yet: IPProfile's defaults threat_score = 0, threat_reasons = [].
NoThreat == [score |-> 0, reasons |-> <<>>]

\* No update under way: nothing kept of a profile, nothing returned by a
\* lookup.
NoState == <<>>

NoWhois == <<>>

NoRead == [taken |-> FALSE, p |-> NoProfile, seen |-> NoState,
           updating |-> FALSE, old |-> NoState, res |-> NoWhois]

\* No lookup under way, no profile read.
EnrichInit ==
    /\ enr_pc = 0
    /\ enr_p = NoProfile
    /\ enr_res = NoWhois
    /\ threat = [p \in Profiles |-> NoThreat]
    /\ enr_old = NoState
    /\ read_snap = NoRead

\* Worker.__init__: "self.rate_samples = deque(maxlen=10000)",
\* "self._rate_bytes_sum = 0"
RateInit ==
    /\ rate_samples = <<>>
    /\ rate_bytes_sum = 0
    /\ rate_calls = 0

\* The threads that call get_or_create_profile.
Callers == 1..NumCallers

CallersInit ==
    /\ gc_pc = [c \in Callers |-> "idle"]
    /\ gc_ret = [c \in Callers |-> NoProfile]

\* The concurrent components before any of them has acted.
ConIdle == TrackersInit /\ EnrichInit /\ RateInit /\ CallersInit

\* The components added last, before any of them has acted.
LateIdle == CloseInit /\ RecvInit /\ AnalyzerInit /\ ConIdle

\* The later components before any of them has acted.
MoreIdle ==
    /\ IntegrityInit
    /\ CallInit
    /\ LateIdle

\* The added components before any of them has acted.
ExtIdle ==
    /\ ThreadsInit
    /\ FramesInit
    /\ SanitizeIpInit
    /\ IntelInit
    /\ LoggerInit
    /\ WatchlistInit
    /\ MoreIdle

(***************************************************************************)
(* Specification of the cache alone: any number of threads call get and    *)
(* put; each call holds the cache's lock for its whole body, so the calls  *)
(* are atomic and interleave in any order.  Between calls the clock        *)
(* advances by a second, or by a second more than an hour.                 *)
(***************************************************************************)
InitCache ==
    /\ \E size \in 0..MaxSize, ttl_hours \in {0, MaxTtlHours} :
           CacheInit(size, ttl_hours)
    /\ recency = <<>>
    /\ BucketInit(1, 1)
    /\ admitted = <<>>
    /\ IpcInit
    /\ ServiceInit
    /\ ExtIdle

\* Clock steps taken so far (the long ones and the seconds).
TicksUsed(m) == (m \div (SecondsPerHour + 1)) + (m % (SecondsPerHour + 1))

MonotonicTick(d) ==
    /\ TicksUsed(monotonic) < MaxTicks
    /\ monotonic' = monotonic + d
    /\ UNCHANGED <<max_size, ttl_seconds, cache, last_access, cache_ret, recency>>
    /\ UNCHANGED <<bucketVars, admitted, ipcVars, svcVars, extVars>>

\* The history of accesses: an access to a key that the call leaves in the
\* cache makes it the most recent; a key the call removes leaves the history.
Accessed(key) ==
    recency' = LET rest == SelectSeq(recency,
                              LAMBDA x : x # key /\ x \in KeysOf(cache'))
               IN  IF key \in KeysOf(cache') THEN Append(rest, key) ELSE rest

CacheGet(key) ==
    /\ get(key)
    /\ Accessed(key)
    /\ UNCHANGED <<bucketVars, admitted, ipcVars, svcVars, extVars>>

CachePut(key, value) ==
    /\ put(key, value)
    /\ Accessed(key)
    /\ UNCHANGED <<bucketVars, admitted, ipcVars, svcVars, extVars>>

NextCache ==
    \/ \E d \in {1, SecondsPerHour + 1} : MonotonicTick(d)
    \/ \E key \in CacheKeys : CacheGet(key)
    \/ \E key \in CacheKeys, value \in Profiles : CachePut(key, value)

SpecCache == InitCache /\ [][NextCache]_vars

(***************************************************************************)
(* Claims about the LRU cache (checked under SpecCache).                   *)
(***************************************************************************)

\* C6: capacity invariant.  With capacity N > 0 the cache holds at most N
\* entries after every get and put, in every interleaving of the calls.
CacheCapacity == max_size > 0 => Len(cache) <= max_size

\* C6 witness: a put of a new key into a full cache of the largest capacity
\* evicted an entry and left the cache full.
CacheCapacityWitness ==
    /\ max_size = MaxSize
    /\ Len(cache) = max_size
    /\ cache_ret.op = "put"
    /\ cache_ret.evicted # {}

\* C7: recency.  After a get(k) that returned a value, k is the last item
\* of the dictionary: every other key present is evicted before k by the
\* insertions of new keys that follow.
GetMakesMostRecent ==
    (cache_ret.op = "get" /\ cache_ret.found)
        => /\ Len(cache) > 0
           /\ cache[Len(cache)].k = cache_ret.key
           /\ \A i \in 1..(Len(cache) - 1) : cache[i].k # cache_ret.key

\* C7 witness: a get returned a value from a cache that holds another key.
GetMakesMostRecentWitness ==
    /\ cache_ret.op = "get"
    /\ cache_ret.found
    /\ Len(cache) >= 2

\* C8: eviction.  put(k, v) with k absent and the cache holding N > 0
\* entries removes exactly the least recently accessed key and keeps every
\* other entry; put(k, v) with k present evicts nothing, stores v under k and
\* makes k the most recent.  In both cases k ends up last with value v.
PutEvictsLeastRecent ==
    [][\A key \in CacheKeys, value \in Profiles :
        (max_size > 0 /\ cache_ret'.op = "put" /\ cache_ret'.key = key
            /\ CachePut(key, value)) =>
            /\ cache'[Len(cache')] = [k |-> key, v |-> value]
            /\ \A other \in KeysOf(cache') \ {key} :
                   other \in KeysOf(cache) /\ Lookup(cache', other) = Lookup(cache, other)
            /\ IF key \in KeysOf(cache)
               THEN /\ KeysOf(cache') = KeysOf(cache)
                    /\ Len(cache') = Len(cache)
               ELSE IF Len(cache) = max_size
               THEN /\ KeysOf(cache') = (KeysOf(cache) \ {recency[1]}) \cup {key}
                    /\ Len(cache') = Len(cache)
               ELSE /\ KeysOf(cache') = KeysOf(cache) \cup {key}
                    /\ Len(cache') = Len(cache) + 1
      ]_vars

\* C8 witness: a put of a new key into a full cache of at least two entries
\* evicted exactly one of them.
PutEvictsLeastRecentWitness ==
    /\ cache_ret.op = "put"
    /\ Cardinality(cache_ret.evicted) = 1
    /\ cache_ret.key \notin cache_ret.evicted
    /\ max_size >= 2
    /\ Len(cache) = max_size

\* C9 (as claimed): with TTL = 0 no get returns a value, at whatever clock
\* reading it is issued.
TtlZeroNeverFound ==
    (ttl_seconds = 0 /\ cache_ret.op = "get") => ~cache_ret.found

(***************************************************************************)
(* Specification of the token bucket alone: a caller issues consume(n) at  *)
(* non-decreasing readings of the monotonic clock.                         *)
(***************************************************************************)
InitBucket ==
    /\ \E r \in 1..MaxRate, c \in 1..MaxCap : BucketInit(r, c)
    /\ admitted = <<>>
    /\ CacheInit(1, 0)
    /\ recency = <<>>
    /\ IpcInit
    /\ ServiceInit
    /\ ExtIdle

\* The monotonic clock advances between calls.
ClockTick ==
    /\ perf_counter < MaxTime
    /\ perf_counter' = perf_counter + 1
    /\ UNCHANGED <<rate, bucket_size, tokens, last_update, bkt_total_bytes,
                   bkt_throttled_bytes, bkt_packet_count, bkt_throttled_count,
                   consume_ret, admitted, cacheVars, recency, ipcVars, svcVars,
                   extVars>>

\* One call of consume(n); an allowed call is appended to the history.
BucketConsume(n) ==
    /\ bkt_packet_count < MaxCalls
    /\ consume(n)
    /\ admitted' = IF consume_ret'.allowed
                   THEN Append(admitted, [t |-> perf_counter, n |-> n])
                   ELSE admitted
    /\ UNCHANGED <<cacheVars, recency, ipcVars, svcVars, extVars>>

NextBucket ==
    \/ ClockTick
    \/ \E n \in (-1)..MaxBytes : BucketConsume(n)

SpecBucket == InitBucket /\ [][NextBucket]_vars

(***************************************************************************)
(* Claims about the token bucket (checked under SpecBucket).               *)
(***************************************************************************)
RECURSIVE AdmittedSum(_, _)
\* Bytes admitted by the allowed calls number i..j of the history.
AdmittedSum(i, j) == IF i > j THEN 0 ELSE admitted[i].n + AdmittedSum(i + 1, j)

\* C1: rate bound.  For every window of the history, from the i-th to the
\* j-th allowed call, the bytes admitted by those calls are at most
\* C + R * (t_j - t_i).  Every time interval of length dt that holds these
\* calls has dt >= t_j - t_i, so this is the bound for every interval.
RateBound ==
    \A i \in 1..Len(admitted) : \A j \in i..Len(admitted) :
        AdmittedSum(i, j) <= bucket_size + rate * (admitted[j].t - admitted[i].t)

\* C1 witness: the bound is met with equality by a window of at least two
\* allowed calls at different clock readings, after an earlier call.
RateBoundWitness ==
    \E i \in 2..Len(admitted) : \E j \in (i + 1)..Len(admitted) :
        /\ admitted[j].t > admitted[i].t
        /\ admitted[i].n > 0
        /\ admitted[j].n > 0
        /\ AdmittedSum(i, j) = bucket_size + rate * (admitted[j].t - admitted[i].t)

\* C10: outcome of consume(n), n >= 0.  With T the token count after the
\* refill step: if T >= n the call returns (true, 0) and leaves T - n tokens
\* and the throttle counters alone; otherwise it returns
\* (false, (n - T) / R), leaves T tokens, and adds 1 to the throttled-packet
\* count and n to the throttled-byte count.
ConsumeOutcome ==
    [][\A n \in 0..MaxBytes :
        BucketConsume(n) =>
            LET T == Min(bucket_size,
                         tokens + (perf_counter - last_update) * rate)
            IN  IF T >= n
                THEN /\ consume_ret'.allowed = TRUE
                     /\ consume_ret'.wait.num = 0
                     /\ tokens' = T - n
                     /\ bkt_throttled_count' = bkt_throttled_count
                     /\ bkt_throttled_bytes' = bkt_throttled_bytes
                ELSE /\ consume_ret'.allowed = FALSE
                     /\ consume_ret'.wait.num * rate = (n - T) * consume_ret'.wait.den
                     /\ consume_ret'.wait.den > 0
                     /\ tokens' = T
                     /\ bkt_throttled_count' = bkt_throttled_count + 1
                     /\ bkt_throttled_bytes' = bkt_throttled_bytes + n
      ]_vars

\* C10 witness: a throttled call that found tokens left after a refill, so
\* that decrementing them would show, following an allowed call.
ConsumeOutcomeWitness ==
    /\ consume_ret.status = "returned"
    /\ consume_ret.allowed = FALSE
    /\ consume_ret.wait.num > 0
    /\ tokens > 0
    /\ last_update > 0
    /\ Len(admitted) > 0
    /\ bkt_throttled_count = 1

\* C11: token count invariant.  The bucket starts with tokens = C, and in
\* every state 0 <= tokens <= C, whatever calls were made and however long
\* the clock ran between them.
TokensInRange ==
    /\ 0 <= tokens
    /\ tokens <= bucket_size
    /\ (bkt_packet_count = 0 => tokens = bucket_size)

\* C11 witness: after a throttled call and an idle time longer than the
\* time to fill the bucket, a call found the bucket full and emptied it.
TokensInRangeWitness ==
    /\ tokens = 0
    /\ consume_ret.status = "returned"
    /\ consume_ret.allowed
    /\ bkt_throttled_count > 0
    /\ Len(admitted) > 0
    /\ admitted[Len(admitted)].n = bucket_size
    /\ admitted[Len(admitted)].t = perf_counter
    /\ perf_counter * rate > bucket_size

\* C13: consume(0) returns allowed = true in every state of the bucket and
\* stores the token count the refill gives, min(C, tokens + elapsed * R);
\* it throttles nothing.
ConsumeZero ==
    [][BucketConsume(0) =>
            /\ consume_ret'.status = "returned"
            /\ consume_ret'.allowed
            /\ tokens' = Min(bucket_size,
                             tokens + (perf_counter - last_update) * rate)
            /\ bkt_throttled_count' = bkt_throttled_count
            /\ bkt_throttled_bytes' = bkt_throttled_bytes
      ]_vars

\* C13 witness: consume(0) was allowed by an empty bucket that had throttled
\* a call before.
ConsumeZeroWitness ==
    /\ consume_ret.status = "returned"
    /\ consume_ret.allowed
    /\ tokens = 0
    /\ bkt_throttled_count > 0
    /\ Len(admitted) > 0
    /\ admitted[Len(admitted)].n = 0
    /\ admitted[Len(admitted)].t = last_update

(***************************************************************************)
(* Specification of concurrent callers of the bucket: NumThreads threads   *)
(* call consume at any time while the clock runs.                          *)
(***************************************************************************)
InitThreads ==
    /\ BucketInit(1, MaxCap)
    /\ admitted = <<>>
    /\ CacheInit(1, 0)
    /\ recency = <<>>
    /\ IpcInit
    /\ ServiceInit
    /\ ExtIdle

thrIdleVars == <<admitted, cacheVars, recency, ipcVars, svcVars, frameVars,
                 sipVars, intelVars, logVars, wlVars, moreVars>>

ThreadClockTick ==
    /\ perf_counter < MaxTicks
    /\ perf_counter' = perf_counter + 1
    /\ UNCHANGED <<rate, bucket_size, tokens, last_update, bkt_total_bytes,
                   bkt_throttled_bytes, bkt_packet_count, bkt_throttled_count,
                   consume_ret, thrVars, thrIdleVars>>

NextThreads ==
    \/ ThreadClockTick
    \/ \E t \in Threads, n \in 0..MaxBytes : ThrCall(t, n) /\ UNCHANGED thrIdleVars
    \/ \E t \in Threads : ThrAcquire(t) /\ UNCHANGED thrIdleVars
    \/ \E t \in Threads : ThrLoad(t) /\ UNCHANGED thrIdleVars
    \/ \E t \in Threads : ThrStore(t) /\ UNCHANGED thrIdleVars

SpecThreads == InitThreads /\ [][NextThreads]_vars

\* C12: concurrent consume loses no update.  When every call made has
\* returned, the statistics count every call: packets is the number of
\* calls, throttled the number that returned allowed = false, total_bytes
\* the sum of the n requested.
NoLostUpdate ==
    (\A t \in Threads : thr_pc[t] = "idle") =>
        /\ bkt_packet_count = calls.made
        /\ bkt_throttled_count = calls.refused
        /\ bkt_total_bytes = calls.bytes

\* C12 witness: all calls have returned, one of them refused, after a
\* thread had to wait for the lock another thread held.
NoLostUpdateWitness ==
    /\ \A t \in Threads : thr_pc[t] = "idle"
    /\ calls.made = MaxThreadCalls
    /\ calls.refused > 0
    /\ calls.refused < calls.made
    /\ calls.contended

(***************************************************************************)
(* Specification of the interceptor: the receive loop of run(), the        *)
(* command listener thread, the analyzer's end of the two pipes, and the   *)
(* writers of the pipes.  The receive loop takes the throttled-set lock,   *)
(* the bucket's lock and the statistics lock one after the other, so the   *)
(* listener can run between any two of its steps.                          *)
(***************************************************************************)
InitSvc ==
    /\ BucketInit(1, MaxPacketBytes)
    /\ admitted = <<>>
    /\ CacheInit(1, 0)
    /\ recency = <<>>
    /\ IpcInit
    /\ ServiceInit
    /\ ExtIdle

idleVars == <<admitted, cacheVars, recency, extVars>>

\* run(): self.ipc.start() creates the pipes and starts the listener.
SvcStartIpc ==
    /\ svc_pc = "init"
    /\ ipc_running' = TRUE
    /\ svc_pc' = "wait_client"
    /\ UNCHANGED <<cmd_chan, pkt_chan, connected, listener_last, receive_ret,
                   running, throttled_ips, total_packets, total_bytes,
                   throttled_count, packet, ip_throttled, reinjected,
                   began_throttled, unthrottled_since>>
    /\ UNCHANGED <<bucketVars, idleVars>>

\* IPCClient.connect
ClientConnect ==
    /\ ipc_running
    /\ ~connected
    /\ connected' = TRUE
    /\ UNCHANGED <<ipc_running, cmd_chan, pkt_chan, listener_last, receive_ret>>
    /\ UNCHANGED <<bucketVars, idleVars, svcVars>>

\* run(): wait_for_client returns once the worker has connected, then
\* "self.running = True".
SvcWorkerConnected ==
    /\ svc_pc = "wait_client"
    /\ connected
    /\ running' = TRUE
    /\ svc_pc' = "loop"
    /\ UNCHANGED <<throttled_ips, total_packets, total_bytes, throttled_count,
                   packet, ip_throttled, reinjected, began_throttled,
                   unthrottled_since>>
    /\ UNCHANGED <<bucketVars, idleVars, ipcVars>>

\* "while self.running: packet = w.recv()": processing of a packet begins.
SvcRecv(src, size) ==
    /\ svc_pc = "loop"
    /\ running
    /\ total_packets < MaxPackets
    /\ packet' = [src_addr |-> src, size |-> size]
    /\ svc_pc' = "check"
    /\ began_throttled' = (src \in throttled_ips)
    /\ unthrottled_since' = FALSE
    /\ UNCHANGED <<running, throttled_ips, total_packets, total_bytes,
                   throttled_count, ip_throttled, reinjected>>
    /\ UNCHANGED <<bucketVars, idleVars, ipcVars>>

\* "with self.throttle_lock: ip_throttled = src_ip in self.throttled_ips"
HotCheckThrottled ==
    /\ svc_pc = "check"
    /\ ip_throttled' = IsThrottled(packet.src_addr)
    /\ svc_pc' = "consume"
    /\ UNCHANGED <<running, throttled_ips, total_packets, total_bytes,
                   throttled_count, packet, reinjected, began_throttled,
                   unthrottled_since>>
    /\ UNCHANGED <<bucketVars, idleVars, ipcVars>>

\* "allowed, _ = self.bucket.consume(packet_size)"
HotConsume ==
    /\ svc_pc = "consume"
    /\ consume(packet.size)
    /\ svc_pc' = "decide"
    /\ UNCHANGED <<running, throttled_ips, total_packets, total_bytes,
                   throttled_count, packet, ip_throttled, reinjected,
                   began_throttled, unthrottled_since>>
    /\ UNCHANGED <<idleVars, ipcVars>>

\* A loop that offers a descriptor for every packet, dropped or not.
AfterDecideAlways(should_drop) == "send"

\* "if should_drop: pass / else: w.send(packet) ... self.ipc.send_packet":
\* a dropped packet goes back to w.recv(), a forwarded one on to send_packet.
AfterDecide(should_drop) == IF should_drop THEN "loop" ELSE "send"

\* The decision, the statistics, and w.send(packet) for a forwarded packet.
HotDecide ==
    /\ svc_pc = "decide"
    /\ LET should_drop == ShouldDrop(ip_throttled, consume_ret.allowed) IN
       /\ total_packets' = total_packets + 1
       /\ total_bytes' = total_bytes + packet.size
       /\ throttled_count' = IF should_drop THEN throttled_count + 1
                             ELSE throttled_count
       /\ reinjected' = IF should_drop THEN reinjected ELSE reinjected + 1
       /\ svc_pc' = AfterDecide(should_drop)
    /\ UNCHANGED <<running, throttled_ips, packet, ip_throttled,
                   began_throttled, unthrottled_since>>
    /\ UNCHANGED <<bucketVars, idleVars, ipcVars>>

\* "self.ipc.send_packet(packet_data)" for the forwarded packet.
HotSendPacket ==
    /\ svc_pc = "send"
    /\ send_packet(Descriptor(Str(packet.src_addr), Str(IpB), 5055, 0, "udp",
                              packet.size))
    /\ svc_pc' = "loop"
    /\ UNCHANGED <<ipc_running, cmd_chan, connected, listener_last, receive_ret>>
    /\ UNCHANGED <<running, throttled_ips, total_packets, total_bytes,
                   throttled_count, packet, ip_throttled, reinjected,
                   began_throttled, unthrottled_since>>
    /\ UNCHANGED <<bucketVars, idleVars>>

\* The loop ends when self.running is false: _shutdown().
SvcShutdown ==
    /\ svc_pc = "loop"
    /\ ~running
    /\ running' = FALSE
    /\ ipc_running' = FALSE
    /\ svc_pc' = "stopped"
    /\ UNCHANGED <<cmd_chan, pkt_chan, connected, listener_last, receive_ret>>
    /\ UNCHANGED <<throttled_ips, total_packets, total_bytes, throttled_count,
                   packet, ip_throttled, reinjected, began_throttled,
                   unthrottled_since>>
    /\ UNCHANGED <<bucketVars, idleVars>>

\* One round of IPCServer._command_listener: read a frame, decode it,
\* validate it and, when valid, call on_command = _handle_command.
CommandListener ==
    /\ ipc_running
    /\ cmd_chan # <<>>
    /\ cmd_chan' = Tail(cmd_chan)
    /\ LET cmd == Head(cmd_chan) IN
       IF ListenerAccepts(cmd)
       THEN /\ listener_last' = [outcome |-> "on_command", cmd |-> cmd]
            /\ handle_command(cmd)
       ELSE /\ listener_last' =
                   [outcome |-> IF cmd.kind = "malformed"
                                   \/ CommandValidate(cmd) = "raise"
                                THEN "exception" ELSE "rejected",
                    cmd |-> cmd]
            /\ UNCHANGED <<throttled_ips, running>>
    /\ unthrottled_since' = (unthrottled_since
                             \/ (packet.src_addr \in throttled_ips
                                 /\ packet.src_addr \notin throttled_ips'))
    /\ UNCHANGED <<ipc_running, pkt_chan, connected, receive_ret>>
    /\ UNCHANGED <<svc_pc, total_packets, total_bytes, throttled_count, packet,
                   ip_throttled, reinjected, began_throttled>>
    /\ UNCHANGED <<bucketVars, idleVars>>

\* The analyzer's packet loop calls receive_packet.
ClientReceive ==
    /\ receive_packet
    /\ UNCHANGED <<ipc_running, cmd_chan, connected, listener_last>>
    /\ UNCHANGED <<bucketVars, idleVars, svcVars>>

\* A process that opened the command pipe writes a frame.
WriteCommandFrame(f) ==
    /\ ipc_running
    /\ Len(cmd_chan) < MaxChan
    /\ cmd_chan' = Append(cmd_chan, f)
    /\ UNCHANGED <<ipc_running, pkt_chan, connected, listener_last, receive_ret>>
    /\ UNCHANGED <<bucketVars, idleVars, svcVars>>

\* The process at the server end of the packet pipe writes a frame.
WritePacketFrame(f) ==
    /\ connected
    /\ Len(pkt_chan) < MaxChan
    /\ pkt_chan' = Append(pkt_chan, f)
    /\ UNCHANGED <<ipc_running, cmd_chan, connected, listener_last, receive_ret>>
    /\ UNCHANGED <<bucketVars, idleVars, svcVars>>

NextSvc ==
    \/ SvcStartIpc
    \/ ClientConnect
    \/ SvcWorkerConnected
    \/ \E src \in {IpA, IpB}, size \in 1..MaxPacketBytes : SvcRecv(src, size)
    \/ HotCheckThrottled
    \/ HotConsume
    \/ HotDecide
    \/ HotSendPacket
    \/ SvcShutdown
    \/ CommandListener
    \/ ClientReceive
    \/ \E f \in WorkerCommands : WriteCommandFrame(f)

SpecSvc == InitSvc /\ [][NextSvc]_vars

(***************************************************************************)
(* Specification of the trust boundary: the interceptor is started and     *)
(* receives no traffic; any frame at all can arrive on either pipe.        *)
(***************************************************************************)
\* Frames written and not yet read, over both pipes.
InFlight == Len(cmd_chan) + Len(pkt_chan)

\* The writers of arbitrary frames keep at most MaxChan frames unread.
NextIpc ==
    \/ SvcStartIpc
    \/ ClientConnect
    \/ SvcWorkerConnected
    \/ SvcShutdown
    \/ CommandListener
    \/ ClientReceive
    \/ \E f \in CommandFrames : InFlight < MaxChan /\ WriteCommandFrame(f)
    \/ \E f \in PacketFrames : InFlight < MaxChan /\ WritePacketFrame(f)

SpecIpc == InitSvc /\ [][NextIpc]_vars

(***************************************************************************)
(* Claims about the interceptor (checked under SpecSvc).                   *)
(***************************************************************************)

\* C2: throttle propagation.  A packet whose source was in the throttled set
\* when its processing began, with no unthrottle of that source applied
\* since, is dropped whatever the bucket answered: it is not reinjected, no
\* descriptor is sent for it, and the dropped counter grows by one.
ThrottlePropagation ==
    [][(HotDecide /\ began_throttled /\ ~unthrottled_since) =>
            /\ reinjected' = reinjected
            /\ throttled_count' = throttled_count + 1
            /\ svc_pc' = "loop"
            /\ pkt_chan' = pkt_chan
      ]_vars

\* C2 witness: a packet from a throttled source has been decided and dropped
\* although the bucket allowed it.
ThrottlePropagationWitness ==
    /\ svc_pc = "loop"
    /\ packet # NoPacket
    /\ began_throttled
    /\ ~unthrottled_since
    /\ consume_ret.status = "returned"
    /\ consume_ret.allowed
    /\ throttled_count = 1
    /\ reinjected = 0

\* C3: admission decision.  ip_throttled is the membership of the source in
\* the throttled set when it is read; a decided packet is dropped exactly
\* when ip_throttled holds or consume returned allowed = false; a dropped
\* packet is not reinjected, a forwarded one is reinjected once, and nothing
\* but the decision reinjects.
AdmissionDecision ==
    [][/\ HotCheckThrottled => (ip_throttled' = (packet.src_addr \in throttled_ips))
       /\ HotDecide =>
            LET drop == ip_throttled \/ ~consume_ret.allowed IN
            /\ reinjected' = reinjected + (IF drop THEN 0 ELSE 1)
            /\ throttled_count' = throttled_count + (IF drop THEN 1 ELSE 0)
            /\ total_packets' = total_packets + 1
       /\ (reinjected' # reinjected) => HotDecide
      ]_vars

\* C3 witness: one packet was forwarded, and a later one from a source that
\* is not throttled was dropped because the bucket refused it.
AdmissionDecisionWitness ==
    /\ svc_pc = "loop"
    /\ total_packets = 2
    /\ reinjected = 1
    /\ throttled_count = 1
    /\ ~ip_throttled
    /\ ~consume_ret.allowed

(***************************************************************************)
(* Claims about the trust boundary (checked under SpecIpc).                *)
(***************************************************************************)

\* C4: trust boundary.  A command the listener passed to on_command, and a
\* descriptor receive_packet returned, is a decoded record whose validate()
\* is true.
TrustBoundary ==
    /\ listener_last.outcome = "on_command" =>
           /\ listener_last.cmd.kind = "record"
           /\ CommandValidate(listener_last.cmd) = "true"
    /\ receive_ret.status = "packet" =>
           /\ receive_ret.pkt.kind = "record"
           /\ PacketValidate(receive_ret.pkt) = "true"

\* C4 witness: the listener has turned away a decoded command whose
\* validator is false, and receive_packet has returned a descriptor.
TrustBoundaryWitness ==
    /\ listener_last.outcome = "rejected"
    /\ listener_last.cmd.target_ip = Str(BadIp)
    /\ receive_ret.status = "packet"

\* C5: command whitelist.  A decoded command whose tag is not one of the
\* four fails validation, and the listener's round that reads it leaves the
\* throttled set and the running flag as they were.
CommandWhitelist ==
    [][(CommandListener /\ Head(cmd_chan).kind # "malformed"
                        /\ Head(cmd_chan).type \notin CommandTypes) =>
            /\ CommandValidate(Head(cmd_chan)) = "false"
            /\ listener_last'.outcome = "rejected"
            /\ throttled_ips' = throttled_ips
            /\ running' = running
      ]_vars

\* C5 witness: the listener has read and rejected exec(target_ip = IpA)
\* while the service was running with a throttled address.
CommandWhitelistWitness ==
    /\ listener_last = [outcome |-> "rejected", cmd |-> Cmd("exec", Str(IpA))]
    /\ running
    /\ throttled_ips = {IpA}

(***************************************************************************)
(* Specification of one pipe and its reader: the writer writes whole       *)
(* frames, well-formed or with a length above BUFFER_SIZE; the reader's    *)
(* loop reads them.                                                        *)
(***************************************************************************)
InitFrames ==
    /\ BucketInit(1, 1)
    /\ admitted = <<>>
    /\ CacheInit(1, 0)
    /\ recency = <<>>
    /\ IpcInit
    /\ ServiceInit
    /\ ExtIdle

frameIdleVars == <<bucketVars, admitted, cacheVars, recency, ipcVars, svcVars,
                   thrVars, sipVars, intelVars, logVars, wlVars, moreVars>>

\* Lengths and first words of the bodies of the oversized frames written:
\* one byte or one word above the limit; text, or a word that reads as a
\* length within the limit.
OversizedLens == {BUFFER_SIZE + 1, BUFFER_SIZE + HEADER_SIZE}
OversizedLeads == {JsonWord, BUFFER_SIZE - 1}

NextFrames ==
    \/ ReadHeader /\ UNCHANGED frameIdleVars
    \/ ReadBody /\ UNCHANGED frameIdleVars
    \/ WriteGoodFrame /\ UNCHANGED frameIdleVars
    \/ \E len \in OversizedLens, lead \in OversizedLeads :
           WriteOversizedFrame(len, lead) /\ UNCHANGED frameIdleVars

SpecFrames == InitFrames /\ [][NextFrames]_vars

\* C14 (as claimed): oversized frame recovery.  Once the reader has read all
\* that was written, every well-formed frame written has been decoded and
\* delivered, in the order written, whatever oversized frames came before.
OversizedFrameRecovery ==
    (stream = <<>> /\ rd_pc = "header") => delivered = frames.good

(***************************************************************************)
(* Specification of sanitize_ip: it is called with a string made of        *)
(* characters of the class and of others, or with a string of digits       *)
(* longer than the limit.                                                  *)
(***************************************************************************)
SampleChars == {"1", ".", "a", ":", "F", "g", ";", " ", LF, ArabicThree}

RECURSIVE StringsUpTo(_)
StringsUpTo(n) ==
    IF n = 0 THEN {<<>>}
    ELSE LET shorter == StringsUpTo(n - 1) IN
         shorter \cup {Append(s, c) : s \in shorter, c \in SampleChars}

Digits(n) == [i \in 1..n |-> "1"]

SanitizeIpInputs ==
    StringsUpTo(MaxStrLen)
    \cup {Digits(n) : n \in (MaxIpLen - 1)..(MaxIpLen + MaxStrLen)}
    \cup {Append(Digits(MaxIpLen - 1), c) : c \in SampleChars}

InitSanitizeIp ==
    /\ BucketInit(1, 1)
    /\ admitted = <<>>
    /\ CacheInit(1, 0)
    /\ recency = <<>>
    /\ IpcInit
    /\ ServiceInit
    /\ ThreadsInit
    /\ FramesInit
    /\ IntelInit
    /\ LoggerInit
    /\ WatchlistInit
    /\ MoreIdle
    /\ sip_in \in SanitizeIpInputs
    /\ sip_out = NoneStr

CallSanitizeIp ==
    /\ ~sip_out.some
    /\ sip_out' = Str(sanitize_ip(sip_in))
    /\ UNCHANGED <<sip_in, bucketVars, admitted, cacheVars, recency, ipcVars,
                   svcVars, thrVars, frameVars, intelVars, logVars, wlVars,
                   moreVars>>

NextSanitizeIp == CallSanitizeIp

SpecSanitizeIp == InitSanitizeIp /\ [][NextSanitizeIp]_vars

\* C17 (as claimed): the IP-literal rule.  sanitize_ip(s) is s when s is not
\* empty, has at most 45 characters and only characters of [0-9a-fA-F.:],
\* and is "invalid" for every other s.
IpLiteralRule ==
    sip_out.some =>
        sip_out.str = IF /\ Len(sip_in) > 0
                         /\ Len(sip_in) <= MaxIpLen
                         /\ \A i \in 1..Len(sip_in) : sip_in[i] \in IpChars
                      THEN sip_in
                      ELSE Invalid

(***************************************************************************)
(* Specification of the threat-intelligence store: the packet loop calls   *)
(* get_or_create_profile with any of the sample addresses while the lookup *)
(* worker takes addresses from the queue.  The cache holds one profile, so *)
(* that a second public address evicts the first.                          *)
(***************************************************************************)
PublicIps == {<<"8", ".", "8", ".", "8", ".", "8">>, <<"1", "7", "2", ".", "3", "2", ".", "0", ".", "1">>}
PrivateIps == {<<"1", "0", ".", "0", ".", "0", ".", "1">>, <<"1", "9", "2", ".", "1", "6", "8", ".", "1", ".", "1">>, <<"1", "7", "2", ".", "1", "6", ".", "0", ".", "1">>, <<"1", "6", "9", ".", "2", "5", "4", ".", "1", ".", "1">>}
LoopbackIps == {<<"1", "2", "7", ".", "0", ".", "0", ".", "1">>}
ReservedIps == {<<"2", "4", "0", ".", "0", ".", "0", ".", "1">>, <<"2", "5", "5", ".", "2", "5", "5", ".", "2", "5", "5", ".", "2", "5", "5">>}
MalformedIps == {<<"1", ".", "1", ".", "1">>, <<"2", "5", "6", ".", "1", ".", "1", ".", "1">>, <<"0", "1", ".", "1", ".", "1", ".", "1">>, <<"8", ".", "8", ".", "8", ".", "8", LF>>, <<"8", ".", "8", ".", "8", ".", "g">>, <<>>}

IntelIps == PublicIps \cup PrivateIps \cup LoopbackIps \cup ReservedIps
            \cup MalformedIps

Repeat(c, n) == [i \in 1..n |-> c]

\* Values a lookup returns for a field: a short text, one with a control
\* character and padding, texts longer than each field's limit, and null.
WhoisValues ==
    {Str(<<"U", "S">>),
     Str(<<" ", "U", LF, "S", "U+0085", "U+00A0">>),
     Str(<<" ">> \o Repeat("x", FieldMax.country + 2)),
     Str(Repeat("x", FieldMax.asn_description + 2) \o <<" ">>),
     NoneStr}

WhoisResults == {[f \in WhoisFields |-> v] : v \in WhoisValues}

WhoisOutcomes == {"result", "IPDefinedError", "HTTPLookupError",
                  "WhoisLookupError", "ValueError"}

InitIntel ==
    /\ BucketInit(1, 1)
    /\ admitted = <<>>
    /\ CacheInit(1, MaxTtlHours)
    /\ recency = <<>>
    /\ IpcInit
    /\ ServiceInit
    /\ ExtIdle

intelIdleVars == <<bucketVars, admitted, recency, ipcVars, svcVars, thrVars,
                   frameVars, sipVars, logVars, wlVars, moreVars>>

NextIntel ==
    \/ \E ip \in IntelIps : GocBegin(ip) /\ UNCHANGED intelIdleVars
    \/ \E p \in Profiles : GocCreate(p) /\ UNCHANGED intelIdleVars
    \/ GocEnqueue /\ UNCHANGED intelIdleVars
    \/ \E limited \in BOOLEAN, outcome \in WhoisOutcomes, res \in WhoisResults :
           LookupWorker(limited, outcome, res) /\ UNCHANGED intelIdleVars

SpecIntel == InitIntel /\ [][NextIntel]_vars

\* An address get_or_create_profile must turn away: one that does not parse,
\* or is private, loopback or reserved.
Unroutable(ip) ==
    \/ ~Parses(ip)
    \/ is_private(Octets(ip))
    \/ is_loopback(Octets(ip))
    \/ is_reserved(Octets(ip))

\* C15: no private, loopback or reserved address, and no string that is not
\* an IP address, is a key of the profile cache or an element of the lookup
\* queue, and get_or_create_profile returns nothing for such an input.
PrivateNeverProfiled ==
    /\ \A k \in KeysOf(cache) : ~Unroutable(k)
    /\ \A i \in DOMAIN lookup_queue : ~Unroutable(lookup_queue[i])
    /\ (goc_ret.called /\ Unroutable(goc_ret.ip)) =>
           (~goc_ret.some /\ goc_pc = "idle")

\* C15 witness: a call with a reserved address has returned nothing while
\* the cache holds the profile of a public address that waits in the queue.
PrivateNeverProfiledWitness ==
    /\ goc_ret.called
    /\ goc_ret.ip \in ReservedIps
    /\ ~goc_ret.some
    /\ Len(cache) = 1
    /\ cache[1].k \in PublicIps
    /\ lookup_queue = <<cache[1].k>>

\* The text holds no control character, is trimmed and no longer than max.
CleanText(text, max) ==
    /\ \A i \in 1..Len(text) : text[i] \notin DangerousChars
    /\ Len(text) <= max
    /\ (text # <<>> => /\ text[1] \notin WhitespaceChars
                       /\ text[Len(text)] \notin WhitespaceChars)

\* C16 (as claimed): profile string invariant.  After construction and after
\* every outcome of a lookup, each string field of every cached profile has
\* no control character, is trimmed, and is no longer than its maximum.
ProfileStringsClean ==
    \A i \in DOMAIN cache :
        /\ \A f \in WhoisFields : CleanText(fields[cache[i].v][f], FieldMax[f])
        /\ \A j \in 1..Len(fields[cache[i].v].ip) :
               fields[cache[i].v].ip[j] \notin DangerousChars

(***************************************************************************)
(* Specification of the audit log: records are logged while the writer     *)
(* thread runs; flush() and stop() are each called once, at any time.      *)
(***************************************************************************)
InitLogger ==
    /\ BucketInit(1, 1)
    /\ admitted = <<>>
    /\ CacheInit(1, 0)
    /\ recency = <<>>
    /\ IpcInit
    /\ ServiceInit
    /\ ExtIdle

logIdleVars == <<bucketVars, admitted, cacheVars, recency, ipcVars, svcVars,
                 thrVars, frameVars, sipVars, intelVars, wlVars, moreVars>>

NextLogger ==
    \/ LogRecord /\ UNCHANGED logIdleVars
    \/ WriterCheck /\ UNCHANGED logIdleVars
    \/ WriterGet /\ UNCHANGED logIdleVars
    \/ WriterWrite /\ UNCHANGED logIdleVars
    \/ FlushCall /\ UNCHANGED logIdleVars
    \/ FlushReturn /\ UNCHANGED logIdleVars
    \/ StopCall /\ UNCHANGED logIdleVars
    \/ StopJoin /\ UNCHANGED logIdleVars

SpecLogger == InitLogger /\ [][NextLogger]_vars

\* C18 (as claimed): flush() completeness.  When flush() has returned, every
\* record accepted into the queue before the call is in its file.
FlushComplete ==
    flush_pc = "returned" => flush_snap \subseteq Range(events_file)

\* C19 (as claimed): shutdown durability.  When the writer has exited after
\* stop(), every record accepted before stop() was called is in its file,
\* and none is left in the queue.
ShutdownDurable ==
    (stop_pc # "idle" /\ writer_pc = "exited") =>
        /\ stop_snap \subseteq Range(events_file)
        /\ Range(write_queue) \cap stop_snap = {}

(***************************************************************************)
(* Specification of the watchlist file: NumSavers threads call             *)
(* save_watchlist while a reader opens and reads the path.                 *)
(***************************************************************************)
InitWatchlist ==
    /\ BucketInit(1, 1)
    /\ admitted = <<>>
    /\ CacheInit(1, 0)
    /\ recency = <<>>
    /\ IpcInit
    /\ ServiceInit
    /\ ExtIdle

wlIdleVars == <<bucketVars, admitted, cacheVars, recency, ipcVars, svcVars,
                thrVars, frameVars, sipVars, intelVars, logVars, moreVars>>

NextWatchlist ==
    \/ \E t \in Savers : SaveCall(t) /\ UNCHANGED wlIdleVars
    \/ \E t \in Savers : SaveLock(t) /\ UNCHANGED wlIdleVars
    \/ \E t \in Savers : SaveOpenTemp(t) /\ UNCHANGED wlIdleVars
    \/ \E t \in Savers : SaveDump(t) /\ UNCHANGED wlIdleVars
    \/ \E t \in Savers, outcome \in {"replaced", "PermissionError"} :
           SaveReplace(t, outcome) /\ UNCHANGED wlIdleVars
    \/ ReaderOpen /\ UNCHANGED wlIdleVars
    \/ ReaderRead /\ UNCHANGED wlIdleVars

SpecWatchlist == InitWatchlist /\ [][NextWatchlist]_vars

\* C20 (as claimed): watchlist atomicity.  What a reader reads of the path
\* is no file, or the whole document of a completed save, never a part of
\* one; and when no save is in progress no temporary file remains.
WatchlistAtomic ==
    /\ reader_seen.state \in {"nothing", "absent", "complete"}
    /\ reader_seen.state = "complete" => reader_seen.doc \in saves.completed
    /\ (\A t \in Savers : saver_pc[t] \in {"idle", "lock"}) => tmp_file = Absent

(***************************************************************************)
(* Specification of the signed files: in integrity mode the logger writes  *)
(* one event line or one watchlist, someone may change values in the file, *)
(* and verify_integrity is called on it at any time.                       *)
(***************************************************************************)
InitIntegrity ==
    /\ BucketInit(1, 1)
    /\ admitted = <<>>
    /\ CacheInit(1, 0)
    /\ recency = <<>>
    /\ IpcInit
    /\ ServiceInit
    /\ ExtIdle

sigIdleVars == <<baseVars, callVars, lateVars>>

FieldValues == {"a", "b"}

Watchlists ==
    UNION {[1..n -> {ProfileDict(ip, c) : ip, c \in FieldValues}] : n \in 1..MaxEntries}

NextIntegrity ==
    \/ \E ts, ip \in FieldValues : WriteEvent(EventDict(ts, ip)) /\ UNCHANGED sigIdleVars
    \/ \E w \in Watchlists : SaveSigned(w) /\ UNCHANGED sigIdleVars
    \/ \E i \in 1..MaxEntries, k \in {"timestamp", "ip", "country"}, v \in FieldValues :
           Tamper(i, k, v) /\ UNCHANGED sigIdleVars
    \/ VerifyIntegrity /\ UNCHANGED sigIdleVars

SpecIntegrity == InitIntegrity /\ [][NextIntegrity]_vars

\* C21 (as claimed): integrity verification.  Whenever verify_integrity has
\* been called on a file the logger wrote in integrity mode, event line and
\* watchlist alike, it returned true if the file was then as written and
\* false if a value other than _sig had been changed in it.
IntegrityVerified ==
    verify_ret.called => (verify_ret.result <=> verify_ret.file = sig_written)

(***************************************************************************)
(* Specification of the audit queue near its capacity: the writer has      *)
(* fallen behind and the queue is full, or up to MaxRecords short of it;   *)
(* records are logged while the writer writes at most MaxRecords of them.  *)
(***************************************************************************)
Backlog(n) == [i \in 1..n |-> i]

InitAuditQueue ==
    /\ BucketInit(1, 1)
    /\ admitted = <<>>
    /\ CacheInit(1, 0)
    /\ recency = <<>>
    /\ IpcInit
    /\ ServiceInit
    /\ ThreadsInit
    /\ FramesInit
    /\ SanitizeIpInit
    /\ IntelInit
    /\ WatchlistInit
    /\ MoreIdle
    /\ \E n \in (WriteQueueMax - MaxRecords)..WriteQueueMax :
           /\ write_queue = Backlog(n)
           /\ accepted = Backlog(n)
    /\ log_running = TRUE
    /\ writer_pc \in {"check", "get"}
    /\ writer_item = 0
    /\ events_file = <<>>
    /\ flush_pc = "idle"
    /\ flush_snap = {}
    /\ stop_pc = "idle"
    /\ stop_snap = {}
    /\ log_ret = "none"
    /\ log_calls = 0

NextAuditQueue ==
    \/ LogRecord /\ UNCHANGED logIdleVars
    \/ WriterCheck /\ UNCHANGED logIdleVars
    \/ Len(events_file) < MaxRecords /\ WriterGet /\ UNCHANGED logIdleVars
    \/ WriterWrite /\ UNCHANGED logIdleVars

SpecAuditQueue == InitAuditQueue /\ [][NextAuditQueue]_vars

\* C22: audit queue bound.  The queue never holds more than 10,000 records;
\* a log_event / log_traffic call made when it is full returns, having
\* raised nothing, with the new record dropped and the queue as it was; a
\* call made when it is not full appends the record.
AuditQueueBound ==
    /\ [](Len(write_queue) <= WriteQueueMax)
    /\ [][LogRecord =>
            IF Len(write_queue) = WriteQueueMax
            THEN /\ log_ret' = "dropped"
                 /\ write_queue' = write_queue
                 /\ accepted' = accepted
            ELSE /\ log_ret' = "queued"
                 /\ write_queue' = Append(write_queue, Len(accepted) + 1)]_vars

AuditQueueBoundWitness ==
    /\ log_ret = "dropped"
    /\ Len(write_queue) = WriteQueueMax
    /\ log_calls > 0

(***************************************************************************)
(* Specification of the scorer: calculate is called once on a profile,     *)
(* under a configuration of high-risk countries and ASN keywords.          *)
(***************************************************************************)
AsnChars == {"v", "V", "x"}

AsnTexts == UNION {[1..n -> AsnChars] : n \in 0..MaxStrLen}

ScoredProfiles ==
    [country : {"KP", "US"},
     max_speed_mbps : {high_speed_threshold, high_speed_threshold + 1,
                       extreme_speed_threshold, extreme_speed_threshold + 1},
     total_packets : {MinSamplePackets, MinSamplePackets + 1, MinSamplePackets + 2},
     throttled_packets : {5, 6, 7},
     asn_description : AsnTexts]

KeywordOrders == {<<>>, <<<<"v">>>>, <<<<"V">>>>, <<<<"v">>, <<"x">>>>, <<<<"x">>, <<"v">>>>}

InitScorer ==
    /\ BucketInit(1, 1)
    /\ admitted = <<>>
    /\ CacheInit(1, 0)
    /\ recency = <<>>
    /\ IpcInit
    /\ ServiceInit
    /\ ThreadsInit
    /\ FramesInit
    /\ SanitizeIpInit
    /\ IntelInit
    /\ LoggerInit
    /\ WatchlistInit
    /\ IntegrityInit
    /\ LateIdle
    /\ call_arg \in [fn : {"calculate"}, profile : ScoredProfiles,
                      high_risk_countries : {{}, {"KP"}}, keywords : KeywordOrders]
    /\ call_ret = NoArg

callIdleVars == <<baseVars, sigVars, lateVars>>

NextScorer == CallCalculate /\ UNCHANGED callIdleVars

SpecScorer == InitScorer /\ [][NextScorer]_vars

\* C23: scorer result.  The score calculate returns is min(100, 30 for a
\* high-risk country + 40 for a speed above 100, else 20 for a speed above
\* 50 + 20 for more than 10 packets of which more than half were throttled
\* + 15 when some configured keyword is in the lower-cased ASN description),
\* it lies in 0..100, and the reasons are one per rule that fired.
ScorerResult ==
    call_ret.fn = "calculate" =>
        LET p == call_arg.profile
            b1 == p.country \in call_arg.high_risk_countries
            b2e == p.max_speed_mbps > 100
            b2h == ~b2e /\ p.max_speed_mbps > 50
            b3 == p.total_packets > 10 /\ 2 * p.throttled_packets > p.total_packets
            b4 == \E i \in DOMAIN call_arg.keywords :
                      IsSubstring(call_arg.keywords[i], Lower(p.asn_description))
            n(b) == IF b THEN 1 ELSE 0
            sum == 30 * n(b1) + 40 * n(b2e) + 20 * n(b2h) + 20 * n(b3) + 15 * n(b4)
        IN  /\ call_ret.score = IF sum > 100 THEN 100 ELSE sum
            /\ call_ret.score \in 0..100
            /\ Len(call_ret.reasons) = n(b1) + n(b2e) + n(b2h) + n(b3) + n(b4)
            /\ Len(call_ret.reasons) <= 4
            /\ ("country" \in Range(call_ret.reasons)) = b1
            /\ ("extreme" \in Range(call_ret.reasons)) = b2e
            /\ ("high" \in Range(call_ret.reasons)) = b2h
            /\ ("throttle" \in Range(call_ret.reasons)) = b3
            /\ ("asn" \in Range(call_ret.reasons)) = b4

ScorerResultWitness ==
    /\ call_ret.fn = "calculate"
    /\ call_ret.score = 100
    /\ Len(call_ret.reasons) = 4
    /\ Len(call_arg.keywords) = 2
    /\ \A i \in 1..2 : IsSubstring(call_arg.keywords[i], Lower(call_arg.profile.asn_description))

(***************************************************************************)
(* Specification of the codec: one valid packet descriptor or one valid    *)
(* command is encoded and decoded again.                                   *)
(***************************************************************************)
K_src_ip == <<"s", "r", "c", "_", "i", "p">>
K_dst_ip == <<"d", "s", "t", "_", "i", "p">>
K_src_port == <<"s", "r", "c", "_", "p", "o", "r", "t">>
K_dst_port == <<"d", "s", "t", "_", "p", "o", "r", "t">>
K_protocol == <<"p", "r", "o", "t", "o", "c", "o", "l">>
K_size == <<"s", "i", "z", "e">>
K_timestamp == <<"t", "i", "m", "e", "s", "t", "a", "m", "p">>
K_is_inbound == <<"i", "s", "_", "i", "n", "b", "o", "u", "n", "d">>
K_type == <<"t", "y", "p", "e">>
K_target_ip == <<"t", "a", "r", "g", "e", "t", "_", "i", "p">>
K_params == <<"p", "a", "r", "a", "m", "s">>

\* asdict(PacketData(...)), the fields in the order declared.
PacketDict(src, dst, sport, dport, proto, size, ts, inbound) ==
    PyDict(<<[key |-> K_src_ip, val |-> PyStr(src)],
             [key |-> K_dst_ip, val |-> PyStr(dst)],
             [key |-> K_src_port, val |-> PyInt(sport)],
             [key |-> K_dst_port, val |-> PyInt(dport)],
             [key |-> K_protocol, val |-> PyStr(proto)],
             [key |-> K_size, val |-> PyInt(size)],
             [key |-> K_timestamp, val |-> ts],
             [key |-> K_is_inbound, val |-> PyBool(inbound)]>>)

\* asdict(Command(...))
CommandDict(type, target, params, ts) ==
    PyDict(<<[key |-> K_type, val |-> PyStr(type)],
             [key |-> K_target_ip, val |-> target],
             [key |-> K_params, val |-> PyDict(params)],
             [key |-> K_timestamp, val |-> ts]>>)

Timestamps == {PyFloat(0), PyFloat(1234567890), PyNaN}

\* Valid descriptors: addresses the pattern accepts (one ends in a line
\* feed, one is a digit that is not ASCII), ports and sizes at both ends of
\* their ranges, both protocols.
ValidPackets ==
    {PacketDict(src, IpB, sport, dport, proto, size, ts, inbound) :
        src \in {s \in {IpA, <<"1", LF>>, <<ArabicThree>>} : is_valid_ip(Str(s))},
        sport \in {0, MaxPort}, dport \in {443}, proto \in {<<"t", "c", "p">>, <<"u", "d", "p">>},
        size \in {0, MAX_PACKET_SIZE}, ts \in Timestamps, inbound \in BOOLEAN}

TypeTexts ==
    {<<"t", "h", "r", "o", "t", "t", "l", "e", "_", "i", "p">>,
     <<"s", "h", "u", "t", "d", "o", "w", "n">>}

\* params with string keys and string values: none, one plain entry, and
\* entries with a quote, a backslash, a line feed and a comma in them.
ParamSets ==
    {<<>>,
     <<[key |-> <<"a">>, val |-> PyStr(<<"b">>)]>>,
     <<[key |-> <<"a", Quote>>, val |-> PyStr(<<Backslash, "n", ",">>)],
       [key |-> <<>>, val |-> PyStr(<<LF, Quote, ":", "}">>)]>>}

ValidCommands ==
    {CommandDict(type, target, params, ts) :
        type \in TypeTexts, target \in {PyNone, PyStr(IpA)},
        params \in ParamSets, ts \in Timestamps}

InitCodec ==
    /\ BucketInit(1, 1)
    /\ admitted = <<>>
    /\ CacheInit(1, 0)
    /\ recency = <<>>
    /\ IpcInit
    /\ ServiceInit
    /\ ThreadsInit
    /\ FramesInit
    /\ SanitizeIpInit
    /\ IntelInit
    /\ LoggerInit
    /\ WatchlistInit
    /\ IntegrityInit
    /\ LateIdle
    /\ call_arg \in [fn : {"roundtrip"}, cls : {"PacketData"}, obj : ValidPackets]
                 \cup [fn : {"roundtrip"}, cls : {"Command"}, obj : ValidCommands]
    /\ call_ret = NoArg

NextCodec == CallRoundTrip /\ UNCHANGED callIdleVars

SpecCodec == InitCodec /\ [][NextCodec]_vars

Configs ==
    [mode : {"vrchat", "turbo"},
     max_bandwidth_mbps : {MIN_BANDWIDTH_MBPS - 1, MIN_BANDWIDTH_MBPS, 5,
                           MAX_BANDWIDTH_MBPS, MAX_BANDWIDTH_MBPS + 1},
     burst_size_mb : {MIN_BURST_SIZE_MB - 1, MIN_BURST_SIZE_MB, 10,
                      MAX_BURST_SIZE_MB, MAX_BURST_SIZE_MB + 1},
     watchlist_threshold : {80, 101},
     cache_max_size : {0, 1}]

InitConfig ==
    /\ BucketInit(1, 1)
    /\ admitted = <<>>
    /\ CacheInit(1, 0)
    /\ recency = <<>>
    /\ IpcInit
    /\ ServiceInit
    /\ ThreadsInit
    /\ FramesInit
    /\ SanitizeIpInit
    /\ IntelInit
    /\ LoggerInit
    /\ WatchlistInit
    /\ IntegrityInit
    /\ LateIdle
    /\ call_arg \in [fn : {"config"}, config : Configs]
    /\ call_ret = NoArg

NextConfig ==
    \/ CallValidate /\ UNCHANGED callIdleVars
    \/ ServiceMain /\ UNCHANGED callIdleVars
    \/ PackageMain /\ UNCHANGED callIdleVars

SpecConfig == InitConfig /\ [][NextConfig]_vars

\* C25 (as claimed): configuration bounds.  validate() returns an error
\* whenever max_bandwidth_mbps is outside 1..1000, or burst_size_mb is
\* outside 1..100, or burst_size_mb is above max_bandwidth_mbps; and no
\* entry point initialises its components from such a configuration.
ConfigBounds ==
    LET c == call_arg.config
        violates == \/ c.max_bandwidth_mbps < 1 \/ c.max_bandwidth_mbps > 1000
                    \/ c.burst_size_mb < 1 \/ c.burst_size_mb > 100
                    \/ c.burst_size_mb > c.max_bandwidth_mbps
    IN  /\ (call_ret.fn = "validate" /\ violates) => call_ret.errors # {}
        /\ (call_ret.fn \in {"service.main", "__main__.main"} /\ violates)
               => call_ret.outcome # "initialised"

\* C26 (as claimed): a packet whose source is in the throttled set is
\* dropped without consulting the bucket: the step of the hot path that
\* follows the throttle test leaves the bucket's tokens, its packet
\* counter and its throttled counter as they were.
ThrottledSkipsBucket ==
    [][(svc_pc = "consume" /\ ip_throttled /\ svc_pc' = "decide")
          => UNCHANGED <<tokens, bkt_packet_count, bkt_throttled_count>>]_vars

(***************************************************************************)
(* Specification of the interceptor under congestion: the interceptor's    *)
(* thread is always scheduled, so each step of its hot path is taken when  *)
(* it can be; the analyzer reads the packet pipe when it pleases, and may  *)
(* stop reading.                                                           *)
(***************************************************************************)
HotPathFairness ==
    /\ WF_vars(HotCheckThrottled)
    /\ WF_vars(HotConsume)
    /\ WF_vars(HotDecide)
    /\ WF_vars(HotSendPacket)

SpecCongestion == InitSvc /\ [][NextSvc]_vars /\ HotPathFairness

\* C27 (as claimed): hot-path progress under congestion.  Whether or not
\* the analyzer reads the packet pipe, a forwarded packet's send_packet
\* returns and the receive loop is back at w.recv().
HotPathProgress == (svc_pc = "send") ~> (svc_pc = "loop")

(***************************************************************************)
(* Specification of peer closure: both processes run and are connected;    *)
(* either end of the pipes can be closed at any time.  The listener        *)
(* thread and the analyzer's main thread are always scheduled.             *)
(***************************************************************************)
closeIdleVars == <<bucketVars, admitted, cacheVars, recency, svcVars, thrVars,
                   frameVars, sipVars, intelVars, logVars, wlVars, sigVars,
                   callVars, anaVars, conVars>>

InitClose ==
    /\ BucketInit(1, MaxPacketBytes)
    /\ admitted = <<>>
    /\ CacheInit(1, 0)
    /\ recency = <<>>
    /\ ipc_running = TRUE
    /\ cmd_chan = <<>>
    /\ pkt_chan = <<>>
    /\ connected = TRUE
    /\ listener_last = NoCommand
    /\ receive_ret = NoReceive
    /\ ServiceInit
    /\ ExtIdle

\* _command_listener: a round that reads a command and handles it.
ListenerCommand ==
    /\ lsn_pc = "read"
    /\ srv_end = "open"
    /\ CommandListener

\* _command_listener: ReadFile fails because the analyzer closed the pipe
\* and nothing is left to read: "if e.winerror == 109: break".
ListenerClosed ==
    /\ lsn_pc = "read"
    /\ ipc_running
    /\ srv_end = "open"
    /\ cmd_chan = <<>>
    /\ cli_end = "closed"
    /\ lsn_pc' = "exited"
    /\ UNCHANGED <<srv_end, cli_end, wrk_pc, wrk_running>>
    /\ UNCHANGED <<ipcVars, recvVars, closeIdleVars>>

\* _command_listener: "while self._running" ends the loop after stop().
ListenerStopped ==
    /\ lsn_pc = "read"
    /\ ~ipc_running
    /\ lsn_pc' = "exited"
    /\ UNCHANGED <<srv_end, cli_end, wrk_pc, wrk_running>>
    /\ UNCHANGED <<ipcVars, recvVars, closeIdleVars>>

\* IPCServer.stop(): _running is cleared and both handles are closed.
ServerStop ==
    /\ srv_end = "open"
    /\ ipc_running' = FALSE
    /\ srv_end' = "closed"
    /\ UNCHANGED <<cmd_chan, pkt_chan, connected, listener_last, receive_ret>>
    /\ UNCHANGED <<cli_end, lsn_pc, wrk_pc, wrk_running>>
    /\ UNCHANGED <<recvVars, closeIdleVars>>

\* The analyzer's process ends without _shutdown: its handles are closed
\* by the system and its loop is gone with it.
ClientClose ==
    /\ cli_end = "open"
    /\ cli_end' = "closed"
    /\ wrk_pc' = "exited"
    /\ UNCHANGED <<srv_end, lsn_pc, wrk_running>>
    /\ UNCHANGED <<ipcVars, recvVars, closeIdleVars>>

\* The analyzer writes a command while its end is open.
ClientWriteCommand(f) ==
    /\ cli_end = "open"
    /\ srv_end = "open"
    /\ connected
    /\ Len(cmd_chan) < MaxChan
    /\ cmd_chan' = Append(cmd_chan, f)
    /\ UNCHANGED <<ipc_running, pkt_chan, connected, listener_last, receive_ret>>
    /\ UNCHANGED <<closeVars, recvVars, closeIdleVars>>

\* The interceptor writes a descriptor while its end is open.
ServerWritePacket(f) ==
    /\ srv_end = "open"
    /\ cli_end = "open"
    /\ Len(pkt_chan) < MaxChan
    /\ pkt_chan' = Append(pkt_chan, f)
    /\ UNCHANGED <<ipc_running, cmd_chan, connected, listener_last, receive_ret>>
    /\ UNCHANGED <<closeVars, recvVars, closeIdleVars>>

\* _packet_loop: "packet = self.ipc.receive_packet()".  A descriptor is
\* analysed and the loop goes round; None goes to the test of self.running;
\* an exception that is not a pipe error leaves the loop.  When the
\* interceptor has closed the pipe and nothing is left to read, ReadFile
\* fails with error 109: _connected is cleared and None is returned.
WorkerReceive ==
    /\ wrk_pc = "receive"
    /\ wrk_running
    /\ \/ /\ receive_packet
          /\ wrk_pc' = CASE receive_ret'.status = "packet" -> "receive"
                          [] receive_ret'.status = "raised" -> "exited"
                          [] OTHER -> "none"
          /\ UNCHANGED connected
       \/ /\ connected
          /\ pkt_chan = <<>>
          /\ srv_end = "closed"
          /\ connected' = FALSE
          /\ receive_ret' = [status |-> "None", pkt |-> GoodDescriptor]
          /\ wrk_pc' = "none"
          /\ UNCHANGED pkt_chan
    /\ UNCHANGED <<ipc_running, cmd_chan, listener_last>>
    /\ UNCHANGED <<srv_end, cli_end, lsn_pc, wrk_running>>
    /\ UNCHANGED <<recvVars, closeIdleVars>>

\* _packet_loop, packet is None: "if not self.running: break", else
\* time.sleep(0.01) and continue.
WorkerNone ==
    /\ wrk_pc = "none"
    /\ wrk_pc' = IF ~wrk_running THEN "exited" ELSE "receive"
    /\ UNCHANGED <<srv_end, cli_end, lsn_pc, wrk_running>>
    /\ UNCHANGED <<ipcVars, recvVars, closeIdleVars>>

\* _packet_loop: "while self.running and not self.stop_event.is_set()".
WorkerLoopExit ==
    /\ wrk_pc = "receive"
    /\ ~wrk_running
    /\ wrk_pc' = "exited"
    /\ UNCHANGED <<srv_end, cli_end, lsn_pc, wrk_running>>
    /\ UNCHANGED <<ipcVars, recvVars, closeIdleVars>>

\* The analyzer's signal handler: running is cleared, stop_event is set.
WorkerSignal ==
    /\ wrk_running
    /\ wrk_pc # "exited"
    /\ wrk_running' = FALSE
    /\ UNCHANGED <<srv_end, cli_end, lsn_pc, wrk_pc>>
    /\ UNCHANGED <<ipcVars, recvVars, closeIdleVars>>

\* Worker._shutdown, in run()'s finally: the flags, then ipc.disconnect().
WorkerShutdown ==
    /\ wrk_pc = "exited"
    /\ cli_end = "open"
    /\ wrk_running' = FALSE
    /\ connected' = FALSE
    /\ cli_end' = "closed"
    /\ UNCHANGED <<ipc_running, cmd_chan, pkt_chan, listener_last, receive_ret>>
    /\ UNCHANGED <<srv_end, lsn_pc, wrk_pc>>
    /\ UNCHANGED <<recvVars, closeIdleVars>>

NextClose ==
    \/ ListenerCommand
    \/ ListenerClosed
    \/ ListenerStopped
    \/ ServerStop
    \/ ClientClose
    \/ \E f \in WorkerCommands : ClientWriteCommand(f)
    \/ \E f \in PacketFrames : ServerWritePacket(f)
    \/ WorkerReceive
    \/ WorkerNone
    \/ WorkerLoopExit
    \/ WorkerSignal
    \/ WorkerShutdown

ReaderFairness ==
    /\ WF_vars(ListenerCommand)
    /\ WF_vars(ListenerClosed)
    /\ WF_vars(ListenerStopped)
    /\ WF_vars(WorkerReceive)
    /\ WF_vars(WorkerNone)
    /\ WF_vars(WorkerLoopExit)

SpecClose == InitClose /\ [][NextClose]_vars /\ ReaderFairness

\* C28 (as claimed): peer closure ends the reader.  Once the listener's
\* read has failed because the analyzer closed the pipe, the listener has
\* exited; once the analyzer's read has failed because the interceptor
\* closed the pipe (_connected is cleared by that failure alone while the
\* loop runs), the packet loop eventually exits.
PeerClosureEndsReader ==
    /\ (cli_end = "closed" /\ lsn_pc = "read") ~> (lsn_pc = "exited")
    /\ (~connected /\ wrk_pc # "exited") ~> (wrk_pc = "exited")

(***************************************************************************)
(* Specification of the receive loops: each call of w.recv() returns a     *)
(* packet or raises OSError.                                               *)
(***************************************************************************)
recvIdleVars == <<baseVars, sigVars, callVars, closeVars, anaVars, conVars>>

InitRecv == InitSvc

\* ShieldEngine.run: "packet = w.recv(); error_count = 0".
EngineRecv ==
    /\ rcv_live["ShieldEngine"]
    /\ recvs["ShieldEngine"] < MaxRecvs
    /\ error_count' = 0
    /\ streak' = [streak EXCEPT !["ShieldEngine"] = 0]
    /\ recvs' = [recvs EXCEPT !["ShieldEngine"] = @ + 1]
    /\ UNCHANGED rcv_live

\* ShieldEngine.run: "except OSError: error_count += 1; if error_count >=
\* 10: break; continue".
EngineRecvError ==
    /\ rcv_live["ShieldEngine"]
    /\ recvs["ShieldEngine"] < MaxRecvs
    /\ error_count' = error_count + 1
    /\ rcv_live' = [rcv_live EXCEPT !["ShieldEngine"] = ~(error_count' >= ERROR_LIMIT)]
    /\ streak' = [streak EXCEPT !["ShieldEngine"] = @ + 1]
    /\ recvs' = [recvs EXCEPT !["ShieldEngine"] = @ + 1]

\* MinimalService.run: "packet = w.recv()".
ServiceRecv ==
    /\ rcv_live["MinimalService"]
    /\ recvs["MinimalService"] < MaxRecvs
    /\ streak' = [streak EXCEPT !["MinimalService"] = 0]
    /\ recvs' = [recvs EXCEPT !["MinimalService"] = @ + 1]
    /\ UNCHANGED <<rcv_live, error_count>>

\* MinimalService.run: "except OSError as e: logger.error(...); continue".
ServiceRecvError ==
    /\ rcv_live["MinimalService"]
    /\ recvs["MinimalService"] < MaxRecvs
    /\ streak' = [streak EXCEPT !["MinimalService"] = @ + 1]
    /\ recvs' = [recvs EXCEPT !["MinimalService"] = @ + 1]
    /\ UNCHANGED <<rcv_live, error_count>>

NextRecv ==
    \/ EngineRecv /\ UNCHANGED recvIdleVars
    \/ EngineRecvError /\ UNCHANGED recvIdleVars
    \/ ServiceRecv /\ UNCHANGED recvIdleVars
    \/ ServiceRecvError /\ UNCHANGED recvIdleVars

SpecRecv == InitRecv /\ [][NextRecv]_vars

\* C29 (as claimed): kernel receive errors.  A receive loop has been ended
\* by receive errors exactly when ten of them have occurred with no
\* successful receive between them; a success puts the count back to zero.
RecvErrorsFatal ==
    /\ \A l \in Loops : rcv_live[l] <=> streak[l] < ERROR_LIMIT
    /\ error_count = streak["ShieldEngine"]

(***************************************************************************)
(* Worker._analyze_packet (worker.py), with the command pipe it writes to  *)
(* and the audit queue it logs to.                                         *)
(***************************************************************************)
\* IPTracker(first_seen=now, last_seen=now)
NewTracker == [packet_count |-> 0, byte_count |-> 0, throttle_count |-> 0,
               threat_score |-> 0]

\* IPTracker.update(size)
TrackerUpdate(tracker, size) ==
    [tracker EXCEPT !.packet_count = @ + 1, !.byte_count = @ + size]

\* "hasattr(self.intel, 'profiles')": ThreatIntel.__init__ sets config,
\* scorer, cache, lookup_queue, rate_limiter, running and worker_thread, and
\* the class defines no attribute named profiles.
HasProfiles == FALSE

\* "hasattr(self.ml, 'predict_score')": AnomalyDetector defines predict,
\* train, save and get_classification, and no predict_score.
HasPredictScore == FALSE

\* _quick_threat_check: the rate and a previous throttle; the cached
\* profile's score and the anomaly detector's part are added under the two
\* hasattr tests; the sum is capped at 100.
quick_threat_check(tracker, rate_mbps, profile_score, ml_part) ==
    Min(100,
        (IF rate_mbps > HIGH_RATE_THRESHOLD_MBPS THEN 40
         ELSE IF 2 * rate_mbps > HIGH_RATE_THRESHOLD_MBPS THEN 20 ELSE 0)
        + (IF tracker.throttle_count > 0 THEN 20 ELSE 0)
        + (IF HasProfiles THEN profile_score ELSE 0)
        + (IF HasPredictScore THEN ml_part ELSE 0))

\* A threshold of 40 instead of THREAT_SCORE_THRESHOLD.
OverThresholdLow(score) == score >= 40

\* "if threat_score >= self.THREAT_SCORE_THRESHOLD"
OverThreshold(score) == score >= THREAT_SCORE_THRESHOLD

\* IPCClient.send_command: False when not connected or when the command
\* does not validate; WriteFile raises pywintypes.error, and False is
\* returned, when the interceptor has closed the pipe.
CommandSent(cmd) ==
    /\ connected
    /\ CommandValidate(cmd) = "true"
    /\ srv_end = "open"

\* _analyze_packet(packet), with the rate, the cached profile's score and
\* the detector's part as they are at the call.
AnalyzePacket(pkt, rate_mbps, profile_score, ml_part) ==
    LET src == pkt.src_ip.str
        found == IF src \in DOMAIN ip_trackers THEN ip_trackers[src] ELSE NewTracker
        tracker == TrackerUpdate(found, pkt.size)
        score == quick_threat_check(tracker, rate_mbps, profile_score, ml_part)
        cmd == Cmd("throttle_ip", pkt.src_ip)
        sent == OverThreshold(score) /\ CommandSent(cmd)
        res == put_nowait(write_queue, [event_type |-> "high_score", ip |-> src])
        queued == OverThreshold(score) /\ ~res.raised
        after == [tracker EXCEPT !.threat_score = score,
                                 !.throttle_count =
                                     IF OverThreshold(score) THEN @ + 1 ELSE @]
    IN  /\ ana_ret.n < MaxAnalyses
        /\ sent => Len(cmd_chan) < MaxChan
        /\ cmd_chan' = IF sent THEN Append(cmd_chan, cmd) ELSE cmd_chan
        /\ write_queue' = IF OverThreshold(score) THEN res.queue ELSE write_queue
        /\ accepted' = IF queued THEN Append(accepted, Len(accepted) + 1)
                       ELSE accepted
        /\ log_ret' = IF ~OverThreshold(score) THEN log_ret
                      ELSE IF res.raised THEN "dropped" ELSE "queued"
        /\ ip_trackers' = [ip \in DOMAIN ip_trackers \cup {src} |->
                              IF ip = src THEN after ELSE ip_trackers[ip]]
        /\ ana_ret' = [n |-> ana_ret.n + 1, src |-> src, score |-> score,
                       sent |-> sent, queued |-> queued,
                       before |-> found.throttle_count,
                       after |-> after.throttle_count,
                       rate |-> rate_mbps, profile |-> profile_score]
        /\ UNCHANGED <<ipc_running, pkt_chan, connected, listener_last, receive_ret>>
        /\ UNCHANGED <<log_running, writer_pc, writer_item, events_file, flush_pc,
                       flush_snap, stop_pc, stop_snap, log_calls>>
        /\ UNCHANGED <<bucketVars, admitted, cacheVars, recency, svcVars, thrVars,
                       frameVars, sipVars, intelVars, wlVars, sigVars, callVars,
                       closeVars, recvVars, conVars>>

(***************************************************************************)
(* Specification of the analyzer: connected to a running interceptor, its  *)
(* audit queue holding a backlog; descriptors are analysed, the listener   *)
(* reads the commands, the writer drains the queue, and the interceptor    *)
(* can stop.                                                               *)
(***************************************************************************)
InitAnalyzer ==
    /\ BucketInit(1, MaxPacketBytes)
    /\ admitted = <<>>
    /\ CacheInit(1, 0)
    /\ recency = <<>>
    /\ ipc_running = TRUE
    /\ cmd_chan = <<>>
    /\ pkt_chan = <<>>
    /\ connected = TRUE
    /\ listener_last = NoCommand
    /\ receive_ret = NoReceive
    /\ ServiceInit
    /\ ThreadsInit
    /\ FramesInit
    /\ SanitizeIpInit
    /\ IntelInit
    /\ WatchlistInit
    /\ MoreIdle
    /\ \E n \in {WriteQueueMax - 1, WriteQueueMax} : write_queue = Backlog(n)
    /\ log_running = TRUE
    /\ writer_pc = "check"
    /\ writer_item = 0
    /\ events_file = <<>>
    /\ accepted = <<>>
    /\ flush_pc = "idle"
    /\ flush_snap = {}
    /\ stop_pc = "idle"
    /\ stop_snap = {}
    /\ log_ret = "none"
    /\ log_calls = 0

Rates == {0, 30, 60}
ProfileScores == {0, 30, 100}
MlParts == {0, 30}
Analysed == {Descriptor(Str(ip), Str(IpB), 5055, 0, "udp", 1) : ip \in {IpA, IpB}}

NextAnalyzer ==
    \/ \E pkt \in Analysed, r \in Rates, p \in ProfileScores, m \in MlParts :
           AnalyzePacket(pkt, r, p, m)
    \/ ServerStop
    \/ WriterCheck /\ UNCHANGED logIdleVars
    \/ Len(events_file) < 1 /\ WriterGet /\ UNCHANGED logIdleVars
    \/ WriterWrite /\ UNCHANGED logIdleVars

SpecAnalyzer == InitAnalyzer /\ [][NextAnalyzer]_vars

QuickScoreComposition ==
    ana_ret.n > 0 =>
        /\ ip_trackers[ana_ret.src].threat_score = ana_ret.score
        /\ \E ml \in 0..30 :
               ana_ret.score =
                   Min(100, (IF ana_ret.rate > 50 THEN 40
                             ELSE IF ana_ret.rate > 25 THEN 20 ELSE 0)
                            + (IF ana_ret.before > 0 THEN 20 ELSE 0)
                            + ana_ret.profile
                            + ml)

(***************************************************************************)
(* Specification of a session driven by the analyzer's commands alone: the *)
(* only command the analyzer's code issues is IPCClient.throttle_ip, from  *)
(* _analyze_packet; here it may be issued for any source at any time.      *)
(***************************************************************************)
\* IPCClient.throttle_ip(ip): the command is built and send_command writes
\* it when the client is connected and the command validates.
ClientThrottleIp(ip) ==
    LET cmd == Cmd("throttle_ip", Str(ip))
    IN  /\ CommandSent(cmd)
        /\ WriteCommandFrame(cmd)

\* The interceptor's signal handler: "service.running = False".
SvcSignal ==
    /\ running
    /\ running' = FALSE
    /\ UNCHANGED <<svc_pc, throttled_ips, total_packets, total_bytes,
                   throttled_count, packet, ip_throttled, reinjected,
                   began_throttled, unthrottled_since>>
    /\ UNCHANGED <<bucketVars, idleVars, ipcVars>>

NextOneWay ==
    \/ SvcStartIpc
    \/ ClientConnect
    \/ SvcWorkerConnected
    \/ \E src \in {IpA, IpB}, size \in 1..MaxPacketBytes : SvcRecv(src, size)
    \/ HotCheckThrottled
    \/ HotConsume
    \/ HotDecide
    \/ HotSendPacket
    \/ SvcSignal
    \/ SvcShutdown
    \/ CommandListener
    \/ ClientReceive
    \/ \E ip \in {IpA, IpB} : ClientThrottleIp(ip)

SpecOneWay == InitSvc /\ [][NextOneWay]_vars

\* C32: throttle is one-way.  In a session driven by the analyzer's
\* commands alone the throttled set only grows: no step removes an address
\* from it, up to and including the end of the session.
ThrottleOneWay == [][throttled_ips \subseteq throttled_ips']_vars

\* Both sources have been throttled one after the other, a packet has been
\* processed since, and the session has ended with both still in the set.
ThrottleOneWayWitness ==
    /\ throttled_ips = {IpA, IpB}
    /\ total_packets > 0
    /\ throttled_count > 0
    /\ svc_pc = "stopped"

(***************************************************************************)
(* Specification of the metadata channel: the interceptor with a bucket    *)
(* large enough for any packet, receiving packets of one byte and packets  *)
(* one byte longer than a descriptor may declare.                          *)
(***************************************************************************)
InitMeta ==
    /\ BucketInit(1, MAX_PACKET_SIZE + 1)
    /\ admitted = <<>>
    /\ CacheInit(1, 0)
    /\ recency = <<>>
    /\ IpcInit
    /\ ServiceInit
    /\ ExtIdle

NextMeta ==
    \/ SvcStartIpc
    \/ ClientConnect
    \/ SvcWorkerConnected
    \/ \E src \in {IpA, IpB}, size \in {1, MAX_PACKET_SIZE + 1} : SvcRecv(src, size)
    \/ HotCheckThrottled
    \/ HotConsume
    \/ HotDecide
    \/ HotSendPacket
    \/ SvcShutdown
    \/ CommandListener
    \/ ClientReceive
    \/ \E f \in WorkerCommands : WriteCommandFrame(f)

SpecMeta == InitMeta /\ [][NextMeta]_vars

\* C33: metadata only for forwarded packets.  At the decision a descriptor
\* is offered to the channel (the loop goes on to send_packet) exactly when
\* the packet is reinjected, and never for a packet counted as dropped; a
\* descriptor is written to the channel only by send_packet, for the packet
\* being processed, and only if it passes validate().
MetadataOnlyForwarded ==
    /\ [][HotDecide =>
            /\ (svc_pc' = "send") <=> (reinjected' = reinjected + 1)
            /\ (svc_pc' = "send") <=> (throttled_count' = throttled_count)]_vars
    /\ [][(svc_pc' = "send" /\ svc_pc # "send") => HotDecide]_vars
    /\ [][Len(pkt_chan') > Len(pkt_chan) =>
            /\ svc_pc = "send"
            /\ svc_pc' = "loop"
            /\ pkt_chan' = Append(pkt_chan, pkt_chan'[Len(pkt_chan')])
            /\ pkt_chan'[Len(pkt_chan')].src_ip = Str(packet.src_addr)
            /\ pkt_chan'[Len(pkt_chan')].size = packet.size
            /\ PacketValidate(pkt_chan'[Len(pkt_chan')]) = "true"]_vars
    /\ [](\A i \in DOMAIN pkt_chan : PacketValidate(pkt_chan[i]) = "true")

\* One packet was dropped with no descriptor and one was forwarded, its
\* descriptor written to the channel.
MetadataOnlyForwardedWitness ==
    /\ throttled_count = 1
    /\ reinjected = 1
    /\ total_packets = 2
    /\ svc_pc = "loop"
    /\ Len(pkt_chan) = 1

(***************************************************************************)
(* Specification of the two readers under arbitrary frames: any writer's   *)
(* frames on the command pipe, any frames on the packet pipe.              *)
(***************************************************************************)
NextReaders ==
    \/ ListenerCommand
    \/ ListenerClosed
    \/ ListenerStopped
    \/ ServerStop
    \/ ClientClose
    \/ \E f \in CommandFrames : ClientWriteCommand(f)
    \/ \E f \in PacketFrames : ServerWritePacket(f)
    \/ WorkerReceive
    \/ WorkerNone
    \/ WorkerLoopExit
    \/ WorkerSignal
    \/ WorkerShutdown

SpecReaders == InitClose /\ [][NextReaders]_vars

\* C34: malformed frames do not affect the channel.  On either channel,
\* when the reader takes a frame whose body cannot be decoded, the frame is
\* dropped (nothing is dispatched or returned) and the reader's loop is
\* still running afterwards, ready for the next frame.
MalformedFramesDropped ==
    /\ [][(ListenerCommand /\ Head(cmd_chan).kind = "malformed") =>
            /\ lsn_pc' = "read"
            /\ listener_last'.outcome # "on_command"
            /\ UNCHANGED <<throttled_ips, running>>]_vars
    /\ [][(WorkerReceive /\ connected /\ pkt_chan # <<>>
            /\ Head(pkt_chan).kind = "malformed") =>
            /\ wrk_pc' # "exited"
            /\ receive_ret'.status # "packet"]_vars

(***************************************************************************)
(* The analyzer's threads on self.ip_trackers (worker.py): the packet loop *)
(* in _analyze_packet, _cleanup_loop and _intel_loop.  None of them takes  *)
(* a lock for the table, so they interleave between any two statements,    *)
(* and a list comprehension over items() can be interrupted between two    *)
(* items.  A tracker is kept as its last_seen; the counters are left out.  *)
(***************************************************************************)
trkIdleVars == <<baseVars, sigVars, callVars, closeVars, recvVars, ana_ret,
                 profVars, rateVars, gcVars>>

\* Clock steps taken so far (the hours and the seconds).
WallTicksUsed(m) == (m \div TrackerMaxAge) + (m % TrackerMaxAge)

\* time.time() between two statements of any thread.
WallTick(d) ==
    /\ WallTicksUsed(wall_clock) < MaxWallTicks
    /\ wall_clock' = wall_clock + d
    /\ UNCHANGED <<pl_pc, pl_ip, pl_now, scan_pc, scan_left, scan_size, cl_now,
                   old_ips, scan_err, ip_trackers>>
    /\ UNCHANGED trkIdleVars

\* _analyze_packet: "src_ip = packet.src_ip; now = time.time()"
PlBegin(ip) ==
    /\ pl_pc = "idle"
    /\ pl_pc' = "check"
    /\ pl_ip' = ip
    /\ pl_now' = wall_clock
    /\ UNCHANGED <<wall_clock, scan_pc, scan_left, scan_size, cl_now, old_ips,
                   scan_err, ip_trackers>>
    /\ UNCHANGED trkIdleVars

\* "if src_ip not in self.ip_trackers"
PlCheck ==
    /\ pl_pc = "check"
    /\ pl_pc' = IF pl_ip \notin DOMAIN ip_trackers THEN "insert" ELSE "lookup"
    /\ UNCHANGED <<wall_clock, pl_ip, pl_now, scan_pc, scan_left, scan_size,
                   cl_now, old_ips, scan_err, ip_trackers>>
    /\ UNCHANGED trkIdleVars

\* "self.ip_trackers[src_ip] = IPTracker(first_seen=now, last_seen=now)"
PlInsert ==
    /\ pl_pc = "insert"
    /\ ip_trackers' = [ip \in DOMAIN ip_trackers \cup {pl_ip} |->
                          IF ip = pl_ip THEN [last_seen |-> pl_now]
                          ELSE ip_trackers[ip]]
    /\ pl_pc' = "lookup"
    /\ UNCHANGED <<wall_clock, pl_ip, pl_now, scan_pc, scan_left, scan_size,
                   cl_now, old_ips, scan_err>>
    /\ UNCHANGED trkIdleVars

\* "tracker = self.ip_trackers[src_ip]": KeyError when the key is gone; the
\* exception leaves _packet_loop and Worker.run.
PlLookup ==
    /\ pl_pc = "lookup"
    /\ pl_pc' = IF pl_ip \in DOMAIN ip_trackers THEN "update" ELSE "dead"
    /\ UNCHANGED <<wall_clock, pl_ip, pl_now, scan_pc, scan_left, scan_size,
                   cl_now, old_ips, scan_err, ip_trackers>>
    /\ UNCHANGED trkIdleVars

\* "tracker.update(packet.size)": IPTracker.update sets last_seen to
\* time.time().  The object updated is the one looked up; when it has been
\* deleted from the table since, the table does not change.  The call
\* returns and its locals are gone.
PlUpdate ==
    /\ pl_pc = "update"
    /\ ip_trackers' = IF pl_ip \in DOMAIN ip_trackers
                       THEN [ip_trackers EXCEPT ![pl_ip].last_seen = wall_clock]
                       ELSE ip_trackers
    /\ pl_pc' = "idle"
    /\ pl_ip' = <<>>
    /\ pl_now' = 0
    /\ UNCHANGED <<wall_clock, scan_pc, scan_left, scan_size, cl_now, old_ips,
                   scan_err>>
    /\ UNCHANGED trkIdleVars

\* A pass of a background loop begins: _cleanup_loop reads "now =
\* time.time()"; "self.ip_trackers.items()" makes the iterator.
ScanBegin(t) ==
    /\ scan_pc[t] = "sleep"
    /\ scan_pc' = [scan_pc EXCEPT ![t] = "scan"]
    /\ scan_left' = [scan_left EXCEPT ![t] = DOMAIN ip_trackers]
    /\ scan_size' = [scan_size EXCEPT ![t] = Cardinality(DOMAIN ip_trackers)]
    /\ cl_now' = IF t = "cleanup" THEN wall_clock ELSE cl_now
    /\ old_ips' = IF t = "cleanup" THEN {} ELSE old_ips
    /\ UNCHANGED <<wall_clock, pl_pc, pl_ip, pl_now, scan_err, ip_trackers>>
    /\ UNCHANGED trkIdleVars

\* "if now - tracker.last_seen > 3600"
IsOld(now, tracker) == now - tracker.last_seen > TrackerMaxAge

\* The iterator is asked for the next item.  A dictionary whose size is not
\* the size it had when the iterator was made raises RuntimeError, which
\* the loop's "except Exception" catches: the pass is abandoned.  Otherwise
\* the next item is tested, or the comprehension ends: _cleanup_loop goes
\* on to its deletions, _intel_loop to its lookups and its sleep.  A pass
\* that ends drops its locals.
ScanStep(t) ==
    /\ scan_pc[t] = "scan"
    /\ LET left == scan_left[t] \cap DOMAIN ip_trackers
           ends == t = "intel" \/ old_ips = {}
       IN
       IF Cardinality(DOMAIN ip_trackers) # scan_size[t]
       THEN /\ scan_pc' = [scan_pc EXCEPT ![t] = "sleep"]
            /\ scan_err' = [scan_err EXCEPT ![t] = 1]
            /\ scan_left' = [scan_left EXCEPT ![t] = {}]
            /\ scan_size' = [scan_size EXCEPT ![t] = 0]
            /\ old_ips' = IF t = "cleanup" THEN {} ELSE old_ips
            /\ cl_now' = IF t = "cleanup" THEN 0 ELSE cl_now
       ELSE IF left = {}
       THEN /\ scan_pc' = [scan_pc EXCEPT ![t] =
                               IF ends THEN "sleep" ELSE "delete"]
            /\ scan_left' = [scan_left EXCEPT ![t] = {}]
            /\ scan_size' = [scan_size EXCEPT ![t] = 0]
            /\ cl_now' = IF t = "cleanup" THEN 0 ELSE cl_now
            /\ UNCHANGED <<scan_err, old_ips>>
       ELSE \E ip \in left :
            /\ scan_left' = [scan_left EXCEPT ![t] = left \ {ip}]
            /\ old_ips' = IF t = "cleanup" /\ IsOld(cl_now, ip_trackers[ip])
                          THEN old_ips \cup {ip} ELSE old_ips
            /\ UNCHANGED <<scan_pc, scan_err, scan_size, cl_now>>
    /\ UNCHANGED <<wall_clock, pl_pc, pl_ip, pl_now, ip_trackers>>
    /\ UNCHANGED trkIdleVars

\* _cleanup_loop: "for ip in old_ips: del self.ip_trackers[ip]", one
\* deletion.
CleanupDelete ==
    /\ scan_pc["cleanup"] = "delete"
    /\ \E ip \in old_ips :
        /\ ip_trackers' = [k \in DOMAIN ip_trackers \ {ip} |-> ip_trackers[k]]
        /\ old_ips' = old_ips \ {ip}
        /\ scan_pc' = [scan_pc EXCEPT !["cleanup"] =
                           IF old_ips = {ip} THEN "sleep" ELSE "delete"]
    /\ UNCHANGED <<wall_clock, pl_pc, pl_ip, pl_now, scan_left, scan_size,
                   cl_now, scan_err>>
    /\ UNCHANGED trkIdleVars

(***************************************************************************)
(* Specification of the tracker table: the packet loop analyses            *)
(* descriptors from two sources while the two background loops make their  *)
(* passes and the clock advances by a second or by an hour.                *)
(***************************************************************************)
InitTrackers == InitSvc

NextTrackers ==
    \/ \E d \in {1, TrackerMaxAge} : WallTick(d)
    \/ \E ip \in {IpA, IpB} : PlBegin(ip)
    \/ PlCheck
    \/ PlInsert
    \/ PlLookup
    \/ PlUpdate
    \/ \E t \in Scanners : ScanBegin(t)
    \/ \E t \in Scanners : ScanStep(t)
    \/ CleanupDelete

SpecTrackers == InitTrackers /\ [][NextTrackers]_vars

\* The packet loop is between its first and its last access to the table.
InPacketAccess == pl_pc \in {"insert", "lookup", "update"}

\* A background loop is between its first and its last access to the table.
InScanAccess(t) == scan_pc[t] \in {"scan", "delete"}

\* C35: tracker table exclusion.  The accesses of the packet loop and of a
\* background loop to the tracker table are serialised: while one of them
\* is between its first and its last access of a pass the other is not,
\* so that no iteration meets a table that changed and no lookup meets a
\* key that was deleted after it was tested.
TrackerTableExclusion ==
    /\ \A t \in Scanners : ~(InPacketAccess /\ InScanAccess(t))
    /\ \A t \in Scanners : scan_err[t] = 0
    /\ pl_pc # "dead"

\* C36: tracker reaping.  A tracker leaves the table only in a step at
\* which more than one hour has passed since its last packet.
TrackerReaping ==
    [][\A ip \in DOMAIN ip_trackers :
          ip \notin DOMAIN ip_trackers' =>
              wall_clock - ip_trackers[ip].last_seen > TrackerMaxAge]_vars

(***************************************************************************)
(* _do_whois_lookup step by step (intel/threat_intel.py): cache.get(ip)    *)
(* under the cache's lock, then, with no lock, the six assignments of      *)
(* IPProfile.update_whois and the two of update_profile_score.  A reader   *)
(* gets the same object from the cache and reads its fields.               *)
(***************************************************************************)
enrIdleVars == <<bucketVars, admitted, recency, ipcVars, svcVars, thrVars,
                 frameVars, sipVars, logVars, wlVars, sigVars, callVars,
                 closeVars, recvVars, anaVars, trkVars, rateVars, gcVars>>

\* The order of the assignments in update_whois.
FieldOrder == <<"country", "asn", "asn_description", "network_name",
                "network_cidr", "abuse_contact">>

KP == <<"K", "P">>
US == <<"U", "S">>
Vps == <<"v", "p", "s">>

\* config.py: DEFAULT_HIGH_RISK_COUNTRIES, and one of
\* DEFAULT_SUSPICIOUS_ASN_KEYWORDS.
DefaultHighRisk == {KP}
DefaultKeywords == <<Vps>>

\* ThreatScorer.update_profile_score on a profile with no traffic counted.
ProfileScore(f) ==
    calculate([country |-> f.country, max_speed_mbps |-> 0, total_packets |-> 0,
               throttled_packets |-> 0, asn_description |-> f.asn_description],
              DefaultHighRisk, DefaultKeywords)

\* The profile after the whole of one update: update_whois, then
\* update_profile_score.
Updated(old, res) ==
    LET f == update_whois(old.fields, res)
    IN  [fields |-> f, threat |-> ProfileScore(f)]

\* What two lookups return.
EnrichResults ==
    {[country |-> Str(KP), asn |-> Str(<<"1">>), asn_description |-> Str(Vps),
      network_name |-> Str(<<"n">>), network_cidr |-> Str(<<"1", ".">>),
      abuse_contact |-> Str(<<"a">>)],
     [country |-> Str(US), asn |-> Str(<<"2">>), asn_description |-> Str(<<"x">>),
      network_name |-> Str(<<"m">>), network_cidr |-> Str(<<"2", ".">>),
      abuse_contact |-> Str(<<"b">>)]}

\* get_or_create_profile makes a new profile: an object nothing refers to,
\* with the defaults threat_score = 0 and threat_reasons = [].
EnrichCreate(p) ==
    /\ GocCreate(p)
    /\ enr_pc = 0 \/ p # enr_p
    /\ threat' = [threat EXCEPT ![p] = NoThreat]
    /\ UNCHANGED <<enr_pc, enr_p, enr_res, enr_old, read_snap>>
    /\ UNCHANGED enrIdleVars

\* _lookup_worker takes an address; _do_whois_lookup: "profile =
\* self.cache.get(ip)", "if profile is None: return", and the lookup, which
\* returns res.
EnrichBegin(res) ==
    /\ enr_pc = 0
    /\ lookup_queue # <<>>
    /\ lookup_queue' = Tail(lookup_queue)
    /\ get(Head(lookup_queue))
    /\ IF cache_ret'.found
       THEN /\ enr_pc' = 1
            /\ enr_p' = cache_ret'.val
            /\ enr_res' = res
            /\ enr_old' = [fields |-> fields[cache_ret'.val],
                           threat |-> threat[cache_ret'.val]]
       ELSE UNCHANGED <<enr_pc, enr_p, enr_res, enr_old>>
    /\ UNCHANGED <<fields, goc_pc, goc_ip, goc_ret, intel_calls, threat, read_snap>>
    /\ UNCHANGED enrIdleVars

\* update_whois: one assignment, "self.<field> = sanitize_string(...)".
EnrichAssign ==
    /\ enr_pc \in DOMAIN FieldOrder
    /\ LET f == FieldOrder[enr_pc] IN
       fields' = [fields EXCEPT ![enr_p][f] = sanitize_string(enr_res[f], FieldMax[f])]
    /\ enr_pc' = enr_pc + 1
    /\ UNCHANGED <<lookup_queue, goc_pc, goc_ip, goc_ret, intel_calls, cacheVars>>
    /\ UNCHANGED <<enr_p, enr_res, threat, enr_old, read_snap>>
    /\ UNCHANGED enrIdleVars

\* "self.scorer.update_profile_score(profile)": threat_score and
\* threat_reasons are set, and _do_whois_lookup returns.
EnrichScore ==
    /\ enr_pc = Len(FieldOrder) + 1
    /\ threat' = [threat EXCEPT ![enr_p] = ProfileScore(fields[enr_p])]
    /\ enr_pc' = 0
    /\ enr_p' = NoProfile
    /\ enr_res' = NoWhois
    /\ enr_old' = NoState
    /\ UNCHANGED <<intelVars, cacheVars, read_snap>>
    /\ UNCHANGED enrIdleVars

\* A reader (the watchlist save, the scorer's caller) gets the profile of
\* ip from the cache and reads its fields, all at once.
ReadProfile(ip) ==
    /\ get(ip)
    /\ read_snap' =
          IF ~cache_ret'.found THEN read_snap
          ELSE LET p == cache_ret'.val IN
               [taken |-> TRUE, p |-> p,
                seen |-> [fields |-> fields[p], threat |-> threat[p]],
                updating |-> (enr_pc # 0 /\ enr_p = p),
                old |-> enr_old, res |-> enr_res]
    /\ UNCHANGED <<intelVars, enr_pc, enr_p, enr_res, threat, enr_old>>
    /\ UNCHANGED enrIdleVars

(***************************************************************************)
(* Specification of enrichment: get_or_create_profile is called for public *)
(* addresses, the lookup worker updates the profiles in the cache, and a   *)
(* reader reads them.                                                      *)
(***************************************************************************)
InitEnrich == InitIntel

NextEnrich ==
    \/ \E ip \in PublicIps :
           GocBegin(ip) /\ UNCHANGED profVars /\ UNCHANGED enrIdleVars
    \/ \E p \in Profiles : EnrichCreate(p)
    \/ GocEnqueue /\ UNCHANGED profVars /\ UNCHANGED enrIdleVars
    \/ \E res \in EnrichResults : EnrichBegin(res)
    \/ EnrichAssign
    \/ EnrichScore
    \/ \E ip \in PublicIps : ReadProfile(ip)

SpecEnrich == InitEnrich /\ [][NextEnrich]_vars

\* C37: no half-updated profiles.  What a reader sees of a profile that an
\* enrichment update is being applied to is the profile as it was before
\* the update or as it is after the whole of it: never some fields new and
\* others old, never new fields with the old score and reasons.
ProfileReadWhole ==
    (read_snap.taken /\ read_snap.updating) =>
        read_snap.seen \in {read_snap.old, Updated(read_snap.old, read_snap.res)}

(***************************************************************************)
(* The rate window (worker.py): _analyze_packet appends a sample and adds  *)
(* its size to the cached sum, _get_ip_rate_mbps removes the expired       *)
(* samples and subtracts their sizes; both under _rate_lock, so each is    *)
(* one step.                                                               *)
(***************************************************************************)
rateIdleVars == <<baseVars, sigVars, callVars, closeVars, recvVars, anaVars,
                  profVars, gcVars>>

rateTrkIdle == <<pl_pc, pl_ip, pl_now, scan_pc, scan_left, scan_size, cl_now,
                 old_ips, scan_err>>

\* deque.append on a deque with maxlen: when the deque is full the item at
\* the left end is discarded.
deque_append(d, x) ==
    IF Len(d) >= RateSamplesMaxLen THEN Append(Tail(d), x) ELSE Append(d, x)

\* A deque that grows without limit.
deque_append_unbounded(d, x) == Append(d, x)

\* "with self._rate_lock: self.rate_samples.append((now, packet.size));
\* self._rate_bytes_sum += packet.size"
RateAppend(size) ==
    /\ rate_calls < MaxRateCalls
    /\ rate_calls' = rate_calls + 1
    /\ rate_samples' = deque_append(rate_samples, [t |-> wall_clock, size |-> size])
    /\ rate_bytes_sum' = rate_bytes_sum + size
    /\ UNCHANGED <<wall_clock, rateTrkIdle>>
    /\ UNCHANGED rateIdleVars

\* The number of samples removed by "while self.rate_samples and
\* self.rate_samples[0][0] < cutoff: popleft()": those before the first
\* sample that has not expired.
ExpiredCount(d, cutoff) ==
    IF \A i \in DOMAIN d : d[i].t < cutoff THEN Len(d)
    ELSE (CHOOSE i \in DOMAIN d :
              d[i].t >= cutoff /\ \A j \in 1..(i - 1) : d[j].t < cutoff) - 1

\* The samples left by the loop.
DropExpired(d, cutoff) == SubSeq(d, ExpiredCount(d, cutoff) + 1, Len(d))

\* The sum of the sizes of the samples d[lo..hi].
RECURSIVE SizeSum(_, _, _)
SizeSum(d, lo, hi) ==
    IF lo > hi THEN 0
    ELSE IF lo = hi THEN d[lo].size
    ELSE LET mid == (lo + hi) \div 2
         IN  SizeSum(d, lo, mid) + SizeSum(d, mid + 1, hi)

\* _get_ip_rate_mbps: "cutoff = now - self.rate_window" and, under the
\* lock, _cleanup_rate_samples_unsafe(cutoff): each sample removed takes its
\* size off the sum.
GetIpRate ==
    /\ LET kept == DropExpired(rate_samples, wall_clock - rate_window) IN
       /\ rate_samples' = kept
       /\ rate_bytes_sum' = rate_bytes_sum
              - SizeSum(rate_samples, 1, Len(rate_samples) - Len(kept))
    /\ UNCHANGED <<rate_calls, wall_clock, rateTrkIdle>>
    /\ UNCHANGED rateIdleVars

\* time.time() between two calls.
RateTick(d) ==
    /\ WallTicksUsed(wall_clock) < MaxWallTicks
    /\ wall_clock' = wall_clock + d
    /\ UNCHANGED <<rateVars, rateTrkIdle>>
    /\ UNCHANGED rateIdleVars

(***************************************************************************)
(* Specification of the rate window: the analyzer has received n           *)
(* descriptors of one byte within the current window, n up to the deque's  *)
(* maximum length; more descriptors arrive, the rate is read, the clock    *)
(* advances.                                                               *)
(***************************************************************************)
WindowBacklog(n) == [i \in 1..n |-> [t |-> 0, size |-> 1]]

InitRate ==
    /\ BucketInit(1, 1)
    /\ admitted = <<>>
    /\ CacheInit(1, 0)
    /\ recency = <<>>
    /\ IpcInit
    /\ ServiceInit
    /\ ThreadsInit
    /\ FramesInit
    /\ SanitizeIpInit
    /\ IntelInit
    /\ LoggerInit
    /\ WatchlistInit
    /\ IntegrityInit
    /\ CallInit
    /\ CloseInit
    /\ RecvInit
    /\ AnalyzerInit
    /\ TrackersInit
    /\ EnrichInit
    /\ CallersInit
    /\ rate_calls = 0
    /\ \E n \in {0, 1, RateSamplesMaxLen - 1, RateSamplesMaxLen} :
         /\ rate_samples = WindowBacklog(n)
         /\ rate_bytes_sum = n

NextRate ==
    \/ \E size \in 1..MaxPacketBytes : RateAppend(size)
    \/ GetIpRate
    \/ \E d \in {1, TrackerMaxAge} : RateTick(d)

SpecRate == InitRate /\ [][NextRate]_vars

\* C38: rate-window consistency.  In every state the cached running byte
\* sum is the sum of the sizes of the samples held in the deque, also when
\* more descriptors arrive within one window than the deque can hold.
RateWindowConsistency ==
    rate_bytes_sum = SizeSum(rate_samples, 1, Len(rate_samples))

(***************************************************************************)
(* Concurrent callers of get_or_create_profile (intel/threat_intel.py):    *)
(* the packet loop, _intel_loop and the watchlist save.  cache.get and     *)
(* cache.put each hold the cache's lock; the method itself holds none      *)
(* between them.                                                           *)
(***************************************************************************)
gcIdleVars == <<bucketVars, admitted, recency, ipcVars, svcVars, thrVars,
                frameVars, sipVars, logVars, wlVars, sigVars, callVars,
                closeVars, recvVars, anaVars, trkVars, profVars, rateVars>>

\* The public address all the callers ask for.
SharedIp == <<"8", ".", "8", ".", "8", ".", "8">>

\* "if self._is_private_ip(ip): return None", "profile =
\* self.cache.get(ip)", "if profile is not None: ... return profile".
GcBegin(c) ==
    /\ gc_pc[c] = "idle"
    /\ intel_calls < MaxIntelCalls
    /\ intel_calls' = intel_calls + 1
    /\ ~IsPrivateIp(SharedIp)
    /\ get(SharedIp)
    /\ gc_pc' = [gc_pc EXCEPT ![c] = IF cache_ret'.found THEN "done" ELSE "create"]
    /\ gc_ret' = [gc_ret EXCEPT ![c] = cache_ret'.val]
    /\ UNCHANGED <<fields, lookup_queue, goc_pc, goc_ip, goc_ret>>
    /\ UNCHANGED gcIdleVars

\* "profile = IPProfile(...)", a new object, and "self.cache.put(ip,
\* profile)".
GcCreate(c, p) ==
    /\ gc_pc[c] = "create"
    /\ \A i \in DOMAIN cache : cache[i].v # p
    /\ \A d \in Callers : gc_ret[d] # p
    /\ fields' = [fields EXCEPT ![p] = NewProfile(SharedIp)]
    /\ put(SharedIp, p)
    /\ gc_pc' = [gc_pc EXCEPT ![c] = "enqueue"]
    /\ gc_ret' = [gc_ret EXCEPT ![c] = p]
    /\ UNCHANGED <<lookup_queue, goc_pc, goc_ip, goc_ret, intel_calls>>
    /\ UNCHANGED gcIdleVars

\* "self.lookup_queue.put_nowait(ip)" and "return profile".
GcEnqueue(c) ==
    /\ gc_pc[c] = "enqueue"
    /\ lookup_queue' = IF Len(lookup_queue) < LookupQueueMax
                       THEN Append(lookup_queue, SharedIp)
                       ELSE lookup_queue
    /\ gc_pc' = [gc_pc EXCEPT ![c] = "done"]
    /\ UNCHANGED <<fields, goc_pc, goc_ip, goc_ret, intel_calls, cacheVars, gc_ret>>
    /\ UNCHANGED gcIdleVars

\* The caller drops the profile it was given and is ready to call again.
GcAgain(c) ==
    /\ gc_pc[c] = "done"
    /\ gc_pc' = [gc_pc EXCEPT ![c] = "idle"]
    /\ gc_ret' = [gc_ret EXCEPT ![c] = NoProfile]
    /\ UNCHANGED <<intelVars, cacheVars>>
    /\ UNCHANGED gcIdleVars

(***************************************************************************)
(* Specification of the callers: they call get_or_create_profile for the   *)
(* same public address, again and again; the cache has room for it and no  *)
(* entry expires.                                                          *)
(***************************************************************************)
InitCallers == InitIntel

NextCallers ==
    \/ \E c \in Callers : GcBegin(c)
    \/ \E c \in Callers, p \in Profiles : GcCreate(c, p)
    \/ \E c \in Callers : GcEnqueue(c)
    \/ \E c \in Callers : GcAgain(c)

SpecCallers == InitCallers /\ [][NextCallers]_vars

\* C39: single profile per IP under concurrency.  Every caller that has
\* returned holds the profile object stored in the cache, the same for all,
\* and the address is on the enrichment queue at most once.
SingleProfilePerIp ==
    /\ \A c \in Callers :
           gc_pc[c] = "done" => gc_ret[c] = Lookup(cache, SharedIp)
    /\ \A c, d \in Callers :
           (gc_pc[c] = "done" /\ gc_pc[d] = "done") => gc_ret[c] = gc_ret[d]
    /\ Len(SelectSeq(lookup_queue, LAMBDA ip : ip = SharedIp)) <= 1

(***************************************************************************)
(* Specification of the analyzer that keeps analysing: the packet loop     *)
(* takes every descriptor it is given.                                     *)
(***************************************************************************)
AnalyzerFairness ==
    WF_vars(\E pkt \in Analysed, r \in Rates, p \in ProfileScores, m \in MlParts :
                AnalyzePacket(pkt, r, p, m))

SpecAnalyzerFair == InitAnalyzer /\ [][NextAnalyzer]_vars /\ AnalyzerFairness

\* The highest quick score: the rate term alone.  No descriptor is scored
\* above it, no command is sent, no tracker counts a throttle.
NeverThrottles ==
    /\ ana_ret.score <= 40
    /\ ~ana_ret.sent
    /\ ana_ret.after = 0
    /\ cmd_chan = <<>>

=============================================================================
